---- MODULE Spec2Model ----
(***************************************************************************)
(* The request validation and SQL gatekeeping pipeline of the Supabase     *)
(* MCP HTTP gateways: the secure server (src/index-http-secure.ts) and the *)
(* API-key server (src/unnamed/part_002).                                  *)
(*                                                                         *)
(* A JavaScript string is a sequence of one-character strings, so that     *)
(* toUpperCase, trim, includes, startsWith, split and the regular          *)
(* expressions of the source are computed character by character.          *)
(***************************************************************************)
EXTENDS Integers, Sequences, FiniteSets, TLC

VARIABLES
    variant,         \* which server runs: "secure", "part002" or "production"
    env,             \* process.env, read once at start-up
    securityConfig,  \* the configuration object built from env
    pc,              \* position of the /mcp handler: "idle", "received",
                     \* "awaiting" (stopped at an await), "done"
    request,         \* the POST /mcp request being handled
    events,          \* the events written to the response stream
    forwarded,       \* the calls made to the forwarding collaborator
    guardEvals,      \* number of sanitizeSqlQuery evaluations for the request
    ended,           \* number of res.end() calls for the request
    query,           \* input of the SQL guard (guard specification)
    guardOut,        \* outcome of the SQL guard on query
    policyOut,       \* outcome of the access-policy checks (policy specification)
    inflight,        \* the concurrent /mcp handlers (index-production.js,
                     \* part_000), the second handler of the pipeline
    status,          \* the HTTP status of the /mcp response head, 0 before writeHead
    json,            \* the status and body last written by res.json
    supabaseMcpServer, \* the module-level server instance of part_000
    initRuns         \* number of initializeSupabaseMcpServer runs started

vars == <<variant, env, securityConfig, pc, request, events, forwarded,
          guardEvals, ended, query, guardOut, policyOut, inflight, status, json,
          supabaseMcpServer, initRuns>>

(***************************************************************************)
(* Bounds of the model.                                                    *)
(***************************************************************************)
\* a guarded query is the concatenation of at most MaxFrags fragments
MaxFrags == 3
\* a schemas argument lists at most MaxSchemas schema names
MaxSchemas == 2
\* index-production.js handles at most MaxClients requests at a time
MaxClients == 2

(***************************************************************************)
(* Optional values: undefined / null against a present value.              *)
(***************************************************************************)
None == [some |-> FALSE, val |-> <<>>]
Some(x) == [some |-> TRUE, val |-> x]

\* JavaScript truthiness of an optional string: undefined and '' are falsy
Truthy(o) == o.some /\ o.val # <<>>

(***************************************************************************)
(* Characters and strings.                                                 *)
(***************************************************************************)
LowerCase == <<"a", "b", "c", "d", "e", "f", "g", "h", "i", "j", "k", "l", "m",
               "n", "o", "p", "q", "r", "s", "t", "u", "v", "w", "x", "y", "z">>
UpperCase == <<"A", "B", "C", "D", "E", "F", "G", "H", "I", "J", "K", "L", "M",
               "N", "O", "P", "Q", "R", "S", "T", "U", "V", "W", "X", "Y", "Z">>

\* A character that a string literal cannot hold is written by its code
\* point: "U+2028" is one character.
\* the line terminators, which '.' of a regular expression does not match:
\* LF, CR, LS, PS
LineTerminator == {"\n", "\r", "U+2028", "U+2029"}
\* the white space of String.prototype.trim and of \s: TAB, VT, FF, SP, NBSP,
\* ZWNBSP, the space separators and the line terminators
WhiteSpace ==
    {"\t", "U+000B", "\f", " ", "U+00A0", "U+FEFF", "U+1680", "U+2000", "U+2001",
     "U+2002", "U+2003", "U+2004", "U+2005", "U+2006", "U+2007", "U+2008", "U+2009",
     "U+200A", "U+202F", "U+205F", "U+3000"} \cup LineTerminator

\* The case mappings of Unicode in the Basic Multilingual Plane, for the
\* characters outside ASCII that toUpperCase changes.  A row of UpperSingles
\* is a character and its upper case; a row of UpperMultis is a character
\* and the two or three characters of its upper case, "----" where there is
\* no third.  A character is written by the four hexadecimal digits of its
\* code, an ASCII letter by itself and "---".
UpperSingles ==
    "00B5039C00E000C000E100C100E200C200E300C300E400C400E500C500E600C600E700C700E800C800E900C900EA00CA00EB00CB00EC00CC00ED00CD00EE00CE00EF00CF00F000D000F100D100F200D200F300D300F400D400F500D500F600D600F800D800F900D900FA00DA00FB00DB00FC00DC00FD00DD00FE00DE00FF01780101010001030102010501040107010601090108010B010A010D010C010F010E0111011001130112011501140117011601190118011B011A011D011C011F011E0121012001230122012501240127012601290128012B012A012D012C012F012E0131I---013301320135013401370136013A0139013C013B013E013D0140013F01420141014401430146014501480147014B014A014D014C014F014E0151015001530152015501540157015601590158015B015A015D015C015F015E0161016001630162016501640167016601690168016B016A016D016C016F016E01710170017301720175017401770176017A0179017C017B017E017D017FS---01800243018301820185018401880187018C018B" \o
    "01920191019501F601990198019A023D019BA7DC019E022001A101A001A301A201A501A401A801A701AD01AC01B001AF01B401B301B601B501B901B801BD01BC01BF01F701C501C401C601C401C801C701C901C701CB01CA01CC01CA01CE01CD01D001CF01D201D101D401D301D601D501D801D701DA01D901DC01DB01DD018E01DF01DE01E101E001E301E201E501E401E701E601E901E801EB01EA01ED01EC01EF01EE01F201F101F301F101F501F401F901F801FB01FA01FD01FC01FF01FE0201020002030202020502040207020602090208020B020A020D020C020F020E0211021002130212021502140217021602190218021B021A021D021C021F021E02230222022502240227022602290228022B022A022D022C022F022E0231023002330232023C023B023F2C7E02402C7F024202410247024602490248024B024A024D024C024F024E02502C6F02512C6D02522C700253018102540186025601890257018A0259018F025B0190025CA7AB026001930261A7AC026301940264A7CB0265A78D0266A7AA0268019702690196" \o
    "026AA7AE026B2C62026CA7AD026F019C02712C6E0272019D0275019F027D2C64028001A60282A7C5028301A90287A7B1028801AE02890244028A01B1028B01B2028C0245029201B7029DA7B2029EA7B003450399037103700373037203770376037B03FD037C03FE037D03FF03AC038603AD038803AE038903AF038A03B1039103B2039203B3039303B4039403B5039503B6039603B7039703B8039803B9039903BA039A03BB039B03BC039C03BD039D03BE039E03BF039F03C003A003C103A103C203A303C303A303C403A403C503A503C603A603C703A703C803A803C903A903CA03AA03CB03AB03CC038C03CD038E03CE038F03D0039203D1039803D503A603D603A003D703CF03D903D803DB03DA03DD03DC03DF03DE03E103E003E303E203E503E403E703E603E903E803EB03EA03ED03EC03EF03EE03F0039A03F103A103F203F903F3037F03F5039503F803F703FB03FA04300410043104110432041204330413043404140435041504360416043704170438041804390419043A041A043B041B043C041C043D041D043E041E" \o
    "043F041F04400420044104210442042204430423044404240445042504460426044704270448042804490429044A042A044B042B044C042C044D042D044E042E044F042F04500400045104010452040204530403045404040455040504560406045704070458040804590409045A040A045B040B045C040C045D040D045E040E045F040F0461046004630462046504640467046604690468046B046A046D046C046F046E0471047004730472047504740477047604790478047B047A047D047C047F047E04810480048B048A048D048C048F048E0491049004930492049504940497049604990498049B049A049D049C049F049E04A104A004A304A204A504A404A704A604A904A804AB04AA04AD04AC04AF04AE04B104B004B304B204B504B404B704B604B904B804BB04BA04BD04BC04BF04BE04C204C104C404C304C604C504C804C704CA04C904CC04CB04CE04CD04CF04C004D104D004D304D204D504D404D704D604D904D804DB04DA04DD04DC04DF04DE04E104E004E304E204E504E404E704E604E904E804EB04EA04ED04EC" \o
    "04EF04EE04F104F004F304F204F504F404F704F604F904F804FB04FA04FD04FC04FF04FE0501050005030502050505040507050605090508050B050A050D050C050F050E0511051005130512051505140517051605190518051B051A051D051C051F051E0521052005230522052505240527052605290528052B052A052D052C052F052E056105310562053205630533056405340565053505660536056705370568053805690539056A053A056B053B056C053C056D053D056E053E056F053F05700540057105410572054205730543057405440575054505760546057705470578054805790549057A054A057B054B057C054C057D054D057E054E057F054F0580055005810551058205520583055305840554058505550586055610D01C9010D11C9110D21C9210D31C9310D41C9410D51C9510D61C9610D71C9710D81C9810D91C9910DA1C9A10DB1C9B10DC1C9C10DD1C9D10DE1C9E10DF1C9F10E01CA010E11CA110E21CA210E31CA310E41CA410E51CA510E61CA610E71CA710E81CA810E91CA910EA1CAA10EB1CAB10EC1CAC" \o
    "10ED1CAD10EE1CAE10EF1CAF10F01CB010F11CB110F21CB210F31CB310F41CB410F51CB510F61CB610F71CB710F81CB810F91CB910FA1CBA10FD1CBD10FE1CBE10FF1CBF13F813F013F913F113FA13F213FB13F313FC13F413FD13F51C8004121C8104141C82041E1C8304211C8404221C8504221C86042A1C8704621C88A64A1C8A1C891D79A77D1D7D2C631D8EA7C61E011E001E031E021E051E041E071E061E091E081E0B1E0A1E0D1E0C1E0F1E0E1E111E101E131E121E151E141E171E161E191E181E1B1E1A1E1D1E1C1E1F1E1E1E211E201E231E221E251E241E271E261E291E281E2B1E2A1E2D1E2C1E2F1E2E1E311E301E331E321E351E341E371E361E391E381E3B1E3A1E3D1E3C1E3F1E3E1E411E401E431E421E451E441E471E461E491E481E4B1E4A1E4D1E4C1E4F1E4E1E511E501E531E521E551E541E571E561E591E581E5B1E5A1E5D1E5C1E5F1E5E1E611E601E631E621E651E641E671E661E691E681E6B1E6A1E6D1E6C1E6F1E6E1E711E701E731E721E751E741E771E761E791E781E7B1E7A1E7D1E7C1E7F1E7E" \o
    "1E811E801E831E821E851E841E871E861E891E881E8B1E8A1E8D1E8C1E8F1E8E1E911E901E931E921E951E941E9B1E601EA11EA01EA31EA21EA51EA41EA71EA61EA91EA81EAB1EAA1EAD1EAC1EAF1EAE1EB11EB01EB31EB21EB51EB41EB71EB61EB91EB81EBB1EBA1EBD1EBC1EBF1EBE1EC11EC01EC31EC21EC51EC41EC71EC61EC91EC81ECB1ECA1ECD1ECC1ECF1ECE1ED11ED01ED31ED21ED51ED41ED71ED61ED91ED81EDB1EDA1EDD1EDC1EDF1EDE1EE11EE01EE31EE21EE51EE41EE71EE61EE91EE81EEB1EEA1EED1EEC1EEF1EEE1EF11EF01EF31EF21EF51EF41EF71EF61EF91EF81EFB1EFA1EFD1EFC1EFF1EFE1F001F081F011F091F021F0A1F031F0B1F041F0C1F051F0D1F061F0E1F071F0F1F101F181F111F191F121F1A1F131F1B1F141F1C1F151F1D1F201F281F211F291F221F2A1F231F2B1F241F2C1F251F2D1F261F2E1F271F2F1F301F381F311F391F321F3A1F331F3B1F341F3C1F351F3D1F361F3E1F371F3F1F401F481F411F491F421F4A1F431F4B1F441F4C1F451F4D1F511F591F531F5B1F551F5D1F571F5F" \o
    "1F601F681F611F691F621F6A1F631F6B1F641F6C1F651F6D1F661F6E1F671F6F1F701FBA1F711FBB1F721FC81F731FC91F741FCA1F751FCB1F761FDA1F771FDB1F781FF81F791FF91F7A1FEA1F7B1FEB1F7C1FFA1F7D1FFB1FB01FB81FB11FB91FBE03991FD01FD81FD11FD91FE01FE81FE11FE91FE51FEC214E213221702160217121612172216221732163217421642175216521762166217721672178216821792169217A216A217B216B217C216C217D216D217E216E217F216F2184218324D024B624D124B724D224B824D324B924D424BA24D524BB24D624BC24D724BD24D824BE24D924BF24DA24C024DB24C124DC24C224DD24C324DE24C424DF24C524E024C624E124C724E224C824E324C924E424CA24E524CB24E624CC24E724CD24E824CE24E924CF2C302C002C312C012C322C022C332C032C342C042C352C052C362C062C372C072C382C082C392C092C3A2C0A2C3B2C0B2C3C2C0C2C3D2C0D2C3E2C0E2C3F2C0F2C402C102C412C112C422C122C432C132C442C142C452C152C462C162C472C172C482C182C492C19" \o
    "2C4A2C1A2C4B2C1B2C4C2C1C2C4D2C1D2C4E2C1E2C4F2C1F2C502C202C512C212C522C222C532C232C542C242C552C252C562C262C572C272C582C282C592C292C5A2C2A2C5B2C2B2C5C2C2C2C5D2C2D2C5E2C2E2C5F2C2F2C612C602C65023A2C66023E2C682C672C6A2C692C6C2C6B2C732C722C762C752C812C802C832C822C852C842C872C862C892C882C8B2C8A2C8D2C8C2C8F2C8E2C912C902C932C922C952C942C972C962C992C982C9B2C9A2C9D2C9C2C9F2C9E2CA12CA02CA32CA22CA52CA42CA72CA62CA92CA82CAB2CAA2CAD2CAC2CAF2CAE2CB12CB02CB32CB22CB52CB42CB72CB62CB92CB82CBB2CBA2CBD2CBC2CBF2CBE2CC12CC02CC32CC22CC52CC42CC72CC62CC92CC82CCB2CCA2CCD2CCC2CCF2CCE2CD12CD02CD32CD22CD52CD42CD72CD62CD92CD82CDB2CDA2CDD2CDC2CDF2CDE2CE12CE02CE32CE22CEC2CEB2CEE2CED2CF32CF22D0010A02D0110A12D0210A22D0310A32D0410A42D0510A52D0610A62D0710A72D0810A82D0910A92D0A10AA2D0B10AB2D0C10AC2D0D10AD2D0E10AE2D0F10AF2D1010B0" \o
    "2D1110B12D1210B22D1310B32D1410B42D1510B52D1610B62D1710B72D1810B82D1910B92D1A10BA2D1B10BB2D1C10BC2D1D10BD2D1E10BE2D1F10BF2D2010C02D2110C12D2210C22D2310C32D2410C42D2510C52D2710C72D2D10CDA641A640A643A642A645A644A647A646A649A648A64BA64AA64DA64CA64FA64EA651A650A653A652A655A654A657A656A659A658A65BA65AA65DA65CA65FA65EA661A660A663A662A665A664A667A666A669A668A66BA66AA66DA66CA681A680A683A682A685A684A687A686A689A688A68BA68AA68DA68CA68FA68EA691A690A693A692A695A694A697A696A699A698A69BA69AA723A722A725A724A727A726A729A728A72BA72AA72DA72CA72FA72EA733A732A735A734A737A736A739A738A73BA73AA73DA73CA73FA73EA741A740A743A742A745A744A747A746A749A748A74BA74AA74DA74CA74FA74EA751A750A753A752A755A754A757A756A759A758A75BA75AA75DA75CA75FA75EA761A760A763A762A765A764A767A766A769A768A76BA76AA76DA76CA76FA76EA77AA779A77CA77B" \o
    "A77FA77EA781A780A783A782A785A784A787A786A78CA78BA791A790A793A792A794A7C4A797A796A799A798A79BA79AA79DA79CA79FA79EA7A1A7A0A7A3A7A2A7A5A7A4A7A7A7A6A7A9A7A8A7B5A7B4A7B7A7B6A7B9A7B8A7BBA7BAA7BDA7BCA7BFA7BEA7C1A7C0A7C3A7C2A7C8A7C7A7CAA7C9A7CDA7CCA7CFA7CEA7D1A7D0A7D3A7D2A7D5A7D4A7D7A7D6A7D9A7D8A7DBA7DAA7F6A7F5AB53A7B3AB7013A0AB7113A1AB7213A2AB7313A3AB7413A4AB7513A5AB7613A6AB7713A7AB7813A8AB7913A9AB7A13AAAB7B13ABAB7C13ACAB7D13ADAB7E13AEAB7F13AFAB8013B0AB8113B1AB8213B2AB8313B3AB8413B4AB8513B5AB8613B6AB8713B7AB8813B8AB8913B9AB8A13BAAB8B13BBAB8C13BCAB8D13BDAB8E13BEAB8F13BFAB9013C0AB9113C1AB9213C2AB9313C3AB9413C4AB9513C5AB9613C6AB9713C7AB9813C8AB9913C9AB9A13CAAB9B13CBAB9C13CCAB9D13CDAB9E13CEAB9F13CFABA013D0ABA113D1ABA213D2ABA313D3ABA413D4ABA513D5ABA613D6ABA713D7ABA813D8ABA913D9ABAA13DAABAB13DBABAC13DC" \o
    "ABAD13DDABAE13DEABAF13DFABB013E0ABB113E1ABB213E2ABB313E3ABB413E4ABB513E5ABB613E6ABB713E7ABB813E8ABB913E9ABBA13EAABBB13EBABBC13ECABBD13EDABBE13EEABBF13EFFF41FF21FF42FF22FF43FF23FF44FF24FF45FF25FF46FF26FF47FF27FF48FF28FF49FF29FF4AFF2AFF4BFF2BFF4CFF2CFF4DFF2DFF4EFF2EFF4FFF2FFF50FF30FF51FF31FF52FF32FF53FF33FF54FF34FF55FF35FF56FF36FF57FF37FF58FF38FF59FF39FF5AFF3A"

UpperMultis ==
    "00DFS---S-------014902BCN-------01F0J---030C----039003990308030103B003A503080301058705350552----1E96H---0331----1E97T---0308----1E98W---030A----1E99Y---030A----1E9AA---02BE----1F5003A50313----1F5203A5031303001F5403A5031303011F5603A5031303421F801F080399----1F811F090399----1F821F0A0399----1F831F0B0399----1F841F0C0399----1F851F0D0399----1F861F0E0399----1F871F0F0399----1F881F080399----1F891F090399----1F8A1F0A0399----1F8B1F0B0399----1F8C1F0C0399----1F8D1F0D0399----1F8E1F0E0399----1F8F1F0F0399----1F901F280399----1F911F290399----1F921F2A0399----1F931F2B0399----1F941F2C0399----1F951F2D0399----1F961F2E0399----1F971F2F0399----1F981F280399----1F991F290399----1F9A1F2A0399----1F9B1F2B0399----1F9C1F2C0399----1F9D1F2D0399----1F9E1F2E0399----1F9F1F2F0399----1FA01F680399----1FA11F690399----1FA21F6A0399----" \o
    "1FA31F6B0399----1FA41F6C0399----1FA51F6D0399----1FA61F6E0399----1FA71F6F0399----1FA81F680399----1FA91F690399----1FAA1F6A0399----1FAB1F6B0399----1FAC1F6C0399----1FAD1F6D0399----1FAE1F6E0399----1FAF1F6F0399----1FB21FBA0399----1FB303910399----1FB403860399----1FB603910342----1FB70391034203991FBC03910399----1FC21FCA0399----1FC303970399----1FC403890399----1FC603970342----1FC70397034203991FCC03970399----1FD20399030803001FD30399030803011FD603990342----1FD70399030803421FE203A5030803001FE303A5030803011FE403A10313----1FE603A50342----1FE703A5030803421FF21FFA0399----1FF303A90399----1FF4038F0399----1FF603A90342----1FF703A9034203991FFC03A90399----FB00F---F-------FB01F---I-------FB02F---L-------FB03F---F---I---FB04F---F---L---FB05S---T-------FB06S---T-------FB1305440546----FB1405440535----FB150544053B----" \o
    "FB16054E0546----FB170544053D----"

\* the rows of a table of rows w wide
Rows(table, w) ==
    [i \in 1..(Len(table) \div w) |-> SubSeq(table, (i - 1) * w + 1, i * w)]

\* the character the k-th four places of a row name
CharAt(row, k) ==
    IF SubSeq(row, 4 * k - 2, 4 * k) = "---"
    THEN SubSeq(row, 4 * k - 3, 4 * k - 3)
    ELSE "U+" \o SubSeq(row, 4 * k - 3, 4 * k)

\* the upper case a row gives: the characters after the first
UpperOfRow(row) ==
    [k \in 1..Cardinality({n \in 2..(Len(row) \div 4) :
                              SubSeq(row, 4 * n - 3, 4 * n) # "----"}) |->
        CharAt(row, k + 1)]

\* the function the rows are: from the first character of a row to the
\* upper case the row gives
UpperOfRows(rows) ==
    [c \in {CharAt(rows[i], 1) : i \in 1..Len(rows)} |->
        UpperOfRow(rows[CHOOSE i \in 1..Len(rows) : CharAt(rows[i], 1) = c])]

UnicodeUpper == UpperOfRows(Rows(UpperSingles, 8) \o Rows(UpperMultis, 16))

\* the upper-case letter of each lower-case ASCII letter
UpperMap ==
    [c \in {LowerCase[i] : i \in 1..26} |->
        UpperCase[CHOOSE i \in 1..26 : LowerCase[i] = c]]

\* f[c], and c itself where f says nothing of c
OrSelf(f, c) == IF c \in DOMAIN f THEN f[c] ELSE <<c>>

\* c.toUpperCase() of a one-character string c: a string of one to three
\* characters
UpperOfChar(c) == IF c \in DOMAIN UpperMap THEN <<UpperMap[c]>> ELSE OrSelf(UnicodeUpper, c)

\* The case mappings of Unicode outside the Basic Multilingual Plane.  Such a
\* character is two code units in a string, a surrogate pair; a row is the
\* pair of the character and the pair of its upper case.
UpperPairs ==
    "D801DC28D801DC00D801DC29D801DC01D801DC2AD801DC02D801DC2BD801DC03D801DC2CD801DC04D801DC2DD801DC05D801DC2ED801DC06D801DC2FD801DC07D801DC30D801DC08D801DC31D801DC09D801DC32D801DC0AD801DC33D801DC0BD801DC34D801DC0CD801DC35D801DC0DD801DC36D801DC0ED801DC37D801DC0FD801DC38D801DC10D801DC39D801DC11D801DC3AD801DC12D801DC3BD801DC13D801DC3CD801DC14D801DC3DD801DC15D801DC3ED801DC16D801DC3FD801DC17D801DC40D801DC18D801DC41D801DC19D801DC42D801DC1AD801DC43D801DC1BD801DC44D801DC1CD801DC45D801DC1DD801DC46D801DC1ED801DC47D801DC1FD801DC48D801DC20D801DC49D801DC21D801DC4AD801DC22D801DC4BD801DC23D801DC4CD801DC24D801DC4DD801DC25D801DC4ED801DC26D801DC4FD801DC27D801DCD8D801DCB0D801DCD9D801DCB1D801DCDAD801DCB2D801DCDBD801DCB3D801DCDCD801DCB4D801DCDDD801DCB5D801DCDED801DCB6D801DCDFD801DCB7D801DCE0D801DCB8D801DCE1D801DCB9" \o
    "D801DCE2D801DCBAD801DCE3D801DCBBD801DCE4D801DCBCD801DCE5D801DCBDD801DCE6D801DCBED801DCE7D801DCBFD801DCE8D801DCC0D801DCE9D801DCC1D801DCEAD801DCC2D801DCEBD801DCC3D801DCECD801DCC4D801DCEDD801DCC5D801DCEED801DCC6D801DCEFD801DCC7D801DCF0D801DCC8D801DCF1D801DCC9D801DCF2D801DCCAD801DCF3D801DCCBD801DCF4D801DCCCD801DCF5D801DCCDD801DCF6D801DCCED801DCF7D801DCCFD801DCF8D801DCD0D801DCF9D801DCD1D801DCFAD801DCD2D801DCFBD801DCD3D801DD97D801DD70D801DD98D801DD71D801DD99D801DD72D801DD9AD801DD73D801DD9BD801DD74D801DD9CD801DD75D801DD9DD801DD76D801DD9ED801DD77D801DD9FD801DD78D801DDA0D801DD79D801DDA1D801DD7AD801DDA3D801DD7CD801DDA4D801DD7DD801DDA5D801DD7ED801DDA6D801DD7FD801DDA7D801DD80D801DDA8D801DD81D801DDA9D801DD82D801DDAAD801DD83D801DDABD801DD84D801DDACD801DD85D801DDADD801DD86D801DDAED801DD87D801DDAFD801DD88" \o
    "D801DDB0D801DD89D801DDB1D801DD8AD801DDB3D801DD8CD801DDB4D801DD8DD801DDB5D801DD8ED801DDB6D801DD8FD801DDB7D801DD90D801DDB8D801DD91D801DDB9D801DD92D801DDBBD801DD94D801DDBCD801DD95D803DCC0D803DC80D803DCC1D803DC81D803DCC2D803DC82D803DCC3D803DC83D803DCC4D803DC84D803DCC5D803DC85D803DCC6D803DC86D803DCC7D803DC87D803DCC8D803DC88D803DCC9D803DC89D803DCCAD803DC8AD803DCCBD803DC8BD803DCCCD803DC8CD803DCCDD803DC8DD803DCCED803DC8ED803DCCFD803DC8FD803DCD0D803DC90D803DCD1D803DC91D803DCD2D803DC92D803DCD3D803DC93D803DCD4D803DC94D803DCD5D803DC95D803DCD6D803DC96D803DCD7D803DC97D803DCD8D803DC98D803DCD9D803DC99D803DCDAD803DC9AD803DCDBD803DC9BD803DCDCD803DC9CD803DCDDD803DC9DD803DCDED803DC9ED803DCDFD803DC9FD803DCE0D803DCA0D803DCE1D803DCA1D803DCE2D803DCA2D803DCE3D803DCA3D803DCE4D803DCA4D803DCE5D803DCA5D803DCE6D803DCA6" \o
    "D803DCE7D803DCA7D803DCE8D803DCA8D803DCE9D803DCA9D803DCEAD803DCAAD803DCEBD803DCABD803DCECD803DCACD803DCEDD803DCADD803DCEED803DCAED803DCEFD803DCAFD803DCF0D803DCB0D803DCF1D803DCB1D803DCF2D803DCB2D803DD70D803DD50D803DD71D803DD51D803DD72D803DD52D803DD73D803DD53D803DD74D803DD54D803DD75D803DD55D803DD76D803DD56D803DD77D803DD57D803DD78D803DD58D803DD79D803DD59D803DD7AD803DD5AD803DD7BD803DD5BD803DD7CD803DD5CD803DD7DD803DD5DD803DD7ED803DD5ED803DD7FD803DD5FD803DD80D803DD60D803DD81D803DD61D803DD82D803DD62D803DD83D803DD63D803DD84D803DD64D803DD85D803DD65D806DCC0D806DCA0D806DCC1D806DCA1D806DCC2D806DCA2D806DCC3D806DCA3D806DCC4D806DCA4D806DCC5D806DCA5D806DCC6D806DCA6D806DCC7D806DCA7D806DCC8D806DCA8D806DCC9D806DCA9D806DCCAD806DCAAD806DCCBD806DCABD806DCCCD806DCACD806DCCDD806DCADD806DCCED806DCAED806DCCFD806DCAF" \o
    "D806DCD0D806DCB0D806DCD1D806DCB1D806DCD2D806DCB2D806DCD3D806DCB3D806DCD4D806DCB4D806DCD5D806DCB5D806DCD6D806DCB6D806DCD7D806DCB7D806DCD8D806DCB8D806DCD9D806DCB9D806DCDAD806DCBAD806DCDBD806DCBBD806DCDCD806DCBCD806DCDDD806DCBDD806DCDED806DCBED806DCDFD806DCBFD81BDE60D81BDE40D81BDE61D81BDE41D81BDE62D81BDE42D81BDE63D81BDE43D81BDE64D81BDE44D81BDE65D81BDE45D81BDE66D81BDE46D81BDE67D81BDE47D81BDE68D81BDE48D81BDE69D81BDE49D81BDE6AD81BDE4AD81BDE6BD81BDE4BD81BDE6CD81BDE4CD81BDE6DD81BDE4DD81BDE6ED81BDE4ED81BDE6FD81BDE4FD81BDE70D81BDE50D81BDE71D81BDE51D81BDE72D81BDE52D81BDE73D81BDE53D81BDE74D81BDE54D81BDE75D81BDE55D81BDE76D81BDE56D81BDE77D81BDE57D81BDE78D81BDE58D81BDE79D81BDE59D81BDE7AD81BDE5AD81BDE7BD81BDE5BD81BDE7CD81BDE5CD81BDE7DD81BDE5DD81BDE7ED81BDE5ED81BDE7FD81BDE5FD81BDEBBD81BDEA0D81BDEBCD81BDEA1" \o
    "D81BDEBDD81BDEA2D81BDEBED81BDEA3D81BDEBFD81BDEA4D81BDEC0D81BDEA5D81BDEC1D81BDEA6D81BDEC2D81BDEA7D81BDEC3D81BDEA8D81BDEC4D81BDEA9D81BDEC5D81BDEAAD81BDEC6D81BDEABD81BDEC7D81BDEACD81BDEC8D81BDEADD81BDEC9D81BDEAED81BDECAD81BDEAFD81BDECBD81BDEB0D81BDECCD81BDEB1D81BDECDD81BDEB2D81BDECED81BDEB3D81BDECFD81BDEB4D81BDED0D81BDEB5D81BDED1D81BDEB6D81BDED2D81BDEB7D81BDED3D81BDEB8D83ADD22D83ADD00D83ADD23D83ADD01D83ADD24D83ADD02D83ADD25D83ADD03D83ADD26D83ADD04D83ADD27D83ADD05D83ADD28D83ADD06D83ADD29D83ADD07D83ADD2AD83ADD08D83ADD2BD83ADD09D83ADD2CD83ADD0AD83ADD2DD83ADD0BD83ADD2ED83ADD0CD83ADD2FD83ADD0DD83ADD30D83ADD0ED83ADD31D83ADD0FD83ADD32D83ADD10D83ADD33D83ADD11D83ADD34D83ADD12D83ADD35D83ADD13D83ADD36D83ADD14D83ADD37D83ADD15D83ADD38D83ADD16D83ADD39D83ADD17D83ADD3AD83ADD18D83ADD3BD83ADD19D83ADD3CD83ADD1A" \o
    "D83ADD3DD83ADD1BD83ADD3ED83ADD1CD83ADD3FD83ADD1DD83ADD40D83ADD1ED83ADD41D83ADD1FD83ADD42D83ADD20D83ADD43D83ADD21"

\* the function the rows are: from the pair of the character to the second
\* code unit of the pair of its upper case.  In every row the two pairs have
\* the same first code unit, so the upper case of a pair differs from the
\* pair in its second code unit only
SecondOfUpper(rows) ==
    [p \in {<<CharAt(rows[i], 1), CharAt(rows[i], 2)>> : i \in 1..Len(rows)} |->
        CharAt(rows[CHOOSE i \in 1..Len(rows) :
                        <<CharAt(rows[i], 1), CharAt(rows[i], 2)>> = p], 4)]

UnicodeUpperPairs == SecondOfUpper(Rows(UpperPairs, 16))

\* the upper case of the code unit c that follows the code unit p: when the
\* two are a surrogate pair with an upper case, the second code unit of that
\* upper case; otherwise the upper case of c by itself
UpperAfter(p, c) ==
    IF <<p, c>> \in DOMAIN UnicodeUpperPairs THEN <<UnicodeUpperPairs[<<p, c>>]>>
    ELSE UpperOfChar(c)

RECURSIVE UpperFrom(_, _)
\* the upper case of s, p being the code unit before s ("" when there is
\* none)
UpperFrom(p, s) ==
    IF s = <<>> THEN <<>> ELSE UpperAfter(p, Head(s)) \o UpperFrom(Head(s), Tail(s))

\* s.toUpperCase(): code point by code point, a code point being a
\* surrogate pair or a code unit outside a pair
toUpperCase(s) == UpperFrom("", s)

\* Canonicalize of a regular expression with flag i and without flag u: the
\* upper case of the character when that is one character, except that a
\* character outside ASCII is never taken to an ASCII one
Canonicalize(c) ==
    LET cu == UpperOfChar(c)
    IN  IF Len(cu) # 1 THEN c
        ELSE IF (\A i \in 1..26 : LowerCase[i] # c) /\ (\E i \in 1..26 : UpperCase[i] = cu[1])
        THEN c
        ELSE cu[1]

trim(s) ==
    LET keep == {i \in 1..Len(s) : s[i] \notin WhiteSpace}
    IN  IF keep = {} THEN <<>>
        ELSE LET lo == CHOOSE i \in keep : \A j \in keep : i <= j
                 hi == CHOOSE i \in keep : \A j \in keep : j <= i
             IN  SubSeq(s, lo, hi)

\* s has p at position i (1-based)
HasAt(s, p, i) ==
    /\ i + Len(p) - 1 <= Len(s)
    /\ \A k \in 1..Len(p) : s[i + k - 1] = p[k]

includes(s, p) == \E i \in 1..(Len(s) + 1) : HasAt(s, p, i)

startsWith(s, p) == HasAt(s, p, 1)

\* Array.prototype.includes on a list of strings (strict equality)
arrayIncludes(list, x) == \E i \in 1..Len(list) : list[i] = x

RECURSIVE splitFrom(_, _, _)
\* the pieces of s from position i on, cur being the piece under construction
splitFrom(s, i, cur) ==
    IF i > Len(s) THEN <<cur>>
    ELSE IF s[i] = "," THEN <<cur>> \o splitFrom(s, i + 1, <<>>)
    ELSE splitFrom(s, i + 1, Append(cur, s[i]))

\* String.prototype.split(','): '' gives [''], 'a,b' gives ['a', 'b']
split(s) == splitFrom(s, 1, <<>>)

(***************************************************************************)
(* Regular expressions of the secure server: a sequence of atoms, each a   *)
(* literal, \s+ or .*, matched case-insensitively (flag i) anywhere in the *)
(* text (RegExp.prototype.test without anchors).                           *)
(***************************************************************************)
Lit(w) == [t |-> "lit", w |-> w]
WsPlus == [t |-> "ws+", w |-> <<>>]
DotStar == [t |-> "dot*", w |-> <<>>]

RECURSIVE MatchFrom(_, _, _, _)
\* atoms k.. of re match s from position i on; s and the literals of re are
\* in canonical (upper) case
MatchFrom(re, k, s, i) ==
    IF k > Len(re) THEN TRUE
    ELSE IF re[k].t = "lit"
         THEN /\ HasAt(s, re[k].w, i)
              /\ MatchFrom(re, k + 1, s, i + Len(re[k].w))
    ELSE IF re[k].t = "ws+"
         THEN \E n \in 1..(Len(s) - i + 1) :
                 /\ \A j \in i..(i + n - 1) : s[j] \in WhiteSpace
                 /\ MatchFrom(re, k + 1, s, i + n)
    ELSE \E n \in 0..(Len(s) - i + 1) :
                 /\ \A j \in i..(i + n - 1) : s[j] \notin LineTerminator
                 /\ MatchFrom(re, k + 1, s, i + n)

RECURSIVE CanonicalizeAll(_)
\* s with each of its characters in canonical case
CanonicalizeAll(s) ==
    IF s = <<>> THEN <<>>
    ELSE <<Canonicalize(Head(s))>> \o CanonicalizeAll(Tail(s))

RECURSIVE CanonicalAtoms(_)
\* re with the literals of its atoms in canonical case
CanonicalAtoms(re) ==
    IF re = <<>> THEN <<>>
    ELSE <<[t |-> Head(re).t, w |-> CanonicalizeAll(Head(re).w)]>>
             \o CanonicalAtoms(Tail(re))

\* RegExp.prototype.test of an unanchored pattern with flag i: both sides
\* are compared in canonical case
test(re, s) ==
    \E canon \in {CanonicalizeAll(s)} :
        \E atoms \in {CanonicalAtoms(re)} :
            \E i \in 1..(Len(s) + 1) : MatchFrom(atoms, 1, canon, i)

(***************************************************************************)
(* Operation names and other literals of the source.                       *)
(***************************************************************************)
apply_migration == <<"a", "p", "p", "l", "y", "_", "m", "i", "g", "r", "a", "t", "i", "o", "n">>
execute_sql_insert == <<"e", "x", "e", "c", "u", "t", "e", "_", "s", "q", "l", "_", "i", "n", "s", "e", "r", "t">>
execute_sql_update == <<"e", "x", "e", "c", "u", "t", "e", "_", "s", "q", "l", "_", "u", "p", "d", "a", "t", "e">>
execute_sql_delete == <<"e", "x", "e", "c", "u", "t", "e", "_", "s", "q", "l", "_", "d", "e", "l", "e", "t", "e">>
deploy_edge_function == <<"d", "e", "p", "l", "o", "y", "_", "e", "d", "g", "e", "_", "f", "u", "n", "c", "t", "i", "o", "n">>
create_project == <<"c", "r", "e", "a", "t", "e", "_", "p", "r", "o", "j", "e", "c", "t">>
pause_project == <<"p", "a", "u", "s", "e", "_", "p", "r", "o", "j", "e", "c", "t">>
restore_project == <<"r", "e", "s", "t", "o", "r", "e", "_", "p", "r", "o", "j", "e", "c", "t">>
create_branch == <<"c", "r", "e", "a", "t", "e", "_", "b", "r", "a", "n", "c", "h">>
delete_branch == <<"d", "e", "l", "e", "t", "e", "_", "b", "r", "a", "n", "c", "h">>
merge_branch == <<"m", "e", "r", "g", "e", "_", "b", "r", "a", "n", "c", "h">>
reset_branch == <<"r", "e", "s", "e", "t", "_", "b", "r", "a", "n", "c", "h">>
rebase_branch == <<"r", "e", "b", "a", "s", "e", "_", "b", "r", "a", "n", "c", "h">>
update_storage_config == <<"u", "p", "d", "a", "t", "e", "_", "s", "t", "o", "r", "a", "g", "e", "_", "c", "o", "n", "f", "i", "g">>
execute_sql == <<"e", "x", "e", "c", "u", "t", "e", "_", "s", "q", "l">>
list_tables == <<"l", "i", "s", "t", "_", "t", "a", "b", "l", "e", "s">>
describe_table == <<"d", "e", "s", "c", "r", "i", "b", "e", "_", "t", "a", "b", "l", "e">>
get_project_url == <<"g", "e", "t", "_", "p", "r", "o", "j", "e", "c", "t", "_", "u", "r", "l">>
public == <<"p", "u", "b", "l", "i", "c">>
private == <<"p", "r", "i", "v", "a", "t", "e">>

(***************************************************************************)
(* Errors.  An Error of the source is a record: the function that threw    *)
(* it, its kind, the message template, and the values interpolated into    *)
(* the message (a pattern, a list of names).                               *)
(***************************************************************************)
NoError == [check |-> "", kind |-> "", text |-> "", pattern |-> <<>>, names |-> <<>>]
Err(check, kind, text, pattern, names) ==
    [check |-> check, kind |-> kind, text |-> text, pattern |-> pattern, names |-> names]

(***************************************************************************)
(* process.env.                                                            *)
(***************************************************************************)
EnvTrue == <<"t", "r", "u", "e">>

\* the first index of list that satisfies Hit, 0 when none does
FirstIndex(list, Hit(_)) ==
    IF \E i \in 1..Len(list) : Hit(list[i])
    THEN CHOOSE i \in 1..Len(list) :
            Hit(list[i]) /\ \A j \in 1..(i - 1) : ~Hit(list[j])
    ELSE 0

\* Array.prototype.filter: the elements that satisfy Keep, in order
filter(list, Keep(_)) ==
    LET idx == {i \in 1..Len(list) : Keep(list[i])}
        Nth(k) == CHOOSE i \in idx : Cardinality({j \in idx : j <= i}) = k
    IN  [k \in 1..Cardinality(idx) |-> list[Nth(k)]]

(***************************************************************************)
(* The secure server, src/index-http-secure.ts.                            *)
(***************************************************************************)
\* process.env.X?.split(',') || dflt
SplitOrDefault(v, dflt) == IF v.some THEN split(v.val) ELSE dflt

loadSecurityConfig(e) ==
    [readOnly          |-> e.SUPABASE_READ_ONLY = Some(EnvTrue),
     allowedProjects   |-> SplitOrDefault(e.SUPABASE_ALLOWED_PROJECTS, <<>>),
     allowedSchemas    |-> SplitOrDefault(e.SUPABASE_ALLOWED_SCHEMAS, <<public>>),
     allowedTables     |-> SplitOrDefault(e.SUPABASE_ALLOWED_TABLES, <<>>),
     blockedOperations |-> SplitOrDefault(e.SUPABASE_BLOCKED_OPERATIONS, <<>>)]

\* SecureValidateProjectAccess matching by substring: a reference contained
\* in an allowed project passes
SecureValidateProjectAccessSubstring(cfg, projectRef) ==
    IF Len(cfg.allowedProjects) > 0
       /\ ~(\E i \in 1..Len(cfg.allowedProjects) :
               includes(cfg.allowedProjects[i], projectRef))
    THEN Err("validateProjectAccess", "ProjectNotAllowed",
             "Access denied: Project ${projectRef} is not in the allowed projects list",
             <<>>, <<projectRef>>)
    ELSE NoError

\* each validator returns the Error it throws, NoError when it returns
SecureValidateProjectAccess(cfg, projectRef) ==
    IF Len(cfg.allowedProjects) > 0 /\ ~arrayIncludes(cfg.allowedProjects, projectRef)
    THEN Err("validateProjectAccess", "ProjectNotAllowed",
             "Access denied: Project ${projectRef} is not in the allowed projects list",
             <<>>, <<projectRef>>)
    ELSE NoError

SecureWriteOperations ==
    <<apply_migration, deploy_edge_function, create_project, pause_project,
      restore_project, create_branch, delete_branch, merge_branch, reset_branch,
      rebase_branch, update_storage_config>>

SecureValidateReadOnlyOperation(cfg, operation) ==
    IF cfg.readOnly /\ arrayIncludes(SecureWriteOperations, operation)
    THEN Err("validateReadOnlyOperation", "ReadOnlyViolation",
             "Operation '${operation}' is not allowed in read-only mode",
             <<>>, <<operation>>)
    ELSE NoError

\* SecureValidateBlockedOperation applied to write operations only
SecureValidateBlockedWritesOnly(cfg, operation) ==
    IF arrayIncludes(cfg.blockedOperations, operation)
       /\ arrayIncludes(SecureWriteOperations, operation)
    THEN Err("validateBlockedOperation", "ExplicitlyBlocked",
             "Operation '${operation}' is explicitly blocked", <<>>, <<operation>>)
    ELSE NoError

SecureValidateBlockedOperation(cfg, operation) ==
    IF arrayIncludes(cfg.blockedOperations, operation)
    THEN Err("validateBlockedOperation", "ExplicitlyBlocked",
             "Operation '${operation}' is explicitly blocked", <<>>, <<operation>>)
    ELSE NoError

\* SecureValidateSchemaAccess reporting the first offending schema only
SecureValidateSchemaAccessFirstOnly(cfg, schemas) ==
    LET NotAllowed(schema) == ~arrayIncludes(cfg.allowedSchemas, schema)
        invalidSchemas == filter(schemas, NotAllowed)
    IN  IF Len(cfg.allowedSchemas) > 0 /\ Len(invalidSchemas) > 0
        THEN Err("validateSchemaAccess", "SchemaNotAllowed",
                 "Access denied: Schemas ${invalidSchemas.join(', ')} are not allowed",
                 <<>>, <<invalidSchemas[1]>>)
        ELSE NoError

SecureValidateSchemaAccess(cfg, schemas) ==
    LET Allowed(schema) == arrayIncludes(cfg.allowedSchemas, schema)
        NotAllowed(schema) == ~Allowed(schema)
        invalidSchemas == filter(schemas, NotAllowed)
    IN  IF Len(cfg.allowedSchemas) > 0 /\ Len(invalidSchemas) > 0
        THEN Err("validateSchemaAccess", "SchemaNotAllowed",
                 "Access denied: Schemas ${invalidSchemas.join(', ')} are not allowed",
                 <<>>, invalidSchemas)
        ELSE NoError

SecureValidateTableAccess(cfg, tables) ==
    LET NotAllowed(table) == ~arrayIncludes(cfg.allowedTables, table)
        invalidTables == filter(tables, NotAllowed)
    IN  IF Len(cfg.allowedTables) > 0 /\ Len(invalidTables) > 0
        THEN Err("validateTableAccess", "TableNotAllowed",
                 "Access denied: Tables ${invalidTables.join(', ')} are not allowed",
                 <<>>, invalidTables)
        ELSE NoError

Regex(source, atoms) == [source |-> source, atoms |-> atoms]

SecureDangerousPatterns ==
    << Regex(<<"d", "r", "o", "p", "\\", "s", "+", "t", "a", "b", "l", "e">>, <<Lit(<<"d", "r", "o", "p">>), WsPlus, Lit(<<"t", "a", "b", "l", "e">>)>>),
       Regex(<<"t", "r", "u", "n", "c", "a", "t", "e", "\\", "s", "+", "t", "a", "b", "l", "e">>, <<Lit(<<"t", "r", "u", "n", "c", "a", "t", "e">>), WsPlus, Lit(<<"t", "a", "b", "l", "e">>)>>),
       Regex(<<"d", "e", "l", "e", "t", "e", "\\", "s", "+", "f", "r", "o", "m">>, <<Lit(<<"d", "e", "l", "e", "t", "e">>), WsPlus, Lit(<<"f", "r", "o", "m">>)>>),
       Regex(<<"u", "p", "d", "a", "t", "e", "\\", "s", "+", ".", "*", "\\", "s", "+", "s", "e", "t">>,
             <<Lit(<<"u", "p", "d", "a", "t", "e">>), WsPlus, DotStar, WsPlus, Lit(<<"s", "e", "t">>)>>),
       Regex(<<"c", "r", "e", "a", "t", "e", "\\", "s", "+", "t", "a", "b", "l", "e">>, <<Lit(<<"c", "r", "e", "a", "t", "e">>), WsPlus, Lit(<<"t", "a", "b", "l", "e">>)>>),
       Regex(<<"a", "l", "t", "e", "r", "\\", "s", "+", "t", "a", "b", "l", "e">>, <<Lit(<<"a", "l", "t", "e", "r">>), WsPlus, Lit(<<"t", "a", "b", "l", "e">>)>>),
       Regex(<<"g", "r", "a", "n", "t", "\\", "s", "+">>, <<Lit(<<"g", "r", "a", "n", "t">>), WsPlus>>),
       Regex(<<"r", "e", "v", "o", "k", "e", "\\", "s", "+">>, <<Lit(<<"r", "e", "v", "o", "k", "e">>), WsPlus>>) >>

SecureInsertPattern ==
    Regex(<<"i", "n", "s", "e", "r", "t", "\\", "s", "+", "i", "n", "t", "o">>, <<Lit(<<"i", "n", "s", "e", "r", "t">>), WsPlus, Lit(<<"i", "n", "t", "o">>)>>)

SecureAllowedPatterns ==
    << Regex(<<"s", "e", "l", "e", "c", "t", "\\", "s", "+", ".", "*", "\\", "s", "+", "f", "r", "o", "m">>,
             <<Lit(<<"s", "e", "l", "e", "c", "t">>), WsPlus, DotStar, WsPlus, Lit(<<"f", "r", "o", "m">>)>>),
       Regex(<<"i", "n", "s", "e", "r", "t", "\\", "s", "+", "i", "n", "t", "o">>, <<Lit(<<"i", "n", "s", "e", "r", "t">>), WsPlus, Lit(<<"i", "n", "t", "o">>)>>),
       Regex(<<"w", "i", "t", "h", "\\", "s", "+", ".", "*", "\\", "s", "+", "s", "e", "l", "e", "c", "t">>,
             <<Lit(<<"w", "i", "t", "h">>), WsPlus, DotStar, WsPlus, Lit(<<"s", "e", "l", "e", "c", "t">>)>>),
       Regex(<<"e", "x", "p", "l", "a", "i", "n", "\\", "s", "+">>, <<Lit(<<"e", "x", "p", "l", "a", "i", "n">>), WsPlus>>),
       Regex(<<"d", "e", "s", "c", "r", "i", "b", "e", "\\", "s", "+">>, <<Lit(<<"d", "e", "s", "c", "r", "i", "b", "e">>), WsPlus>>) >>

\* the outcome of a guard: the value returned, or the Error thrown
Returned(v) == [ok |-> TRUE, value |-> v, error |-> NoError]
Threw(e) == [ok |-> FALSE, value |-> <<>>, error |-> e]

SecureSanitizeSqlQuery(cfg, q) ==
    LET Hit(pattern) == test(pattern.atoms, q)
        first == FirstIndex(SecureDangerousPatterns, Hit)
    IN  IF first # 0
        THEN Threw(Err("sanitizeSqlQuery", "Dangerous",
                 "Dangerous operation detected: ${pattern.source}. Only SELECT and INSERT operations are allowed.",
                 SecureDangerousPatterns[first].source, <<>>))
        ELSE IF cfg.readOnly /\ test(SecureInsertPattern.atoms, q)
        THEN Threw(Err("sanitizeSqlQuery", "InsertInReadOnly",
                 "INSERT operations are not allowed in read-only mode", <<>>, <<>>))
        ELSE IF ~(\E i \in 1..Len(SecureAllowedPatterns) : Hit(SecureAllowedPatterns[i]))
        THEN Threw(Err("sanitizeSqlQuery", "NotInAllowList",
                 "Only SELECT and INSERT operations are allowed", <<>>, <<>>))
        ELSE Returned(q)

(***************************************************************************)
(* The API-key server, src/unnamed/part_002.                               *)
(***************************************************************************)
\* process.env.X ? process.env.X.split(',') : dflt  ('' is falsy)
SplitIfTruthy(v, dflt) == IF Truthy(v) THEN Some(split(v.val)) ELSE dflt

\* the securityConfig object literal; null is None
P2SecurityConfig(e) ==
    [readOnly          |-> e.SUPABASE_READ_ONLY = Some(EnvTrue),
     allowedProjects   |-> SplitIfTruthy(e.SUPABASE_ALLOWED_PROJECTS, None),
     allowedSchemas    |-> SplitIfTruthy(e.SUPABASE_ALLOWED_SCHEMAS, None),
     allowedTables     |-> SplitIfTruthy(e.SUPABASE_ALLOWED_TABLES, None),
     blockedOperations |-> SplitIfTruthy(e.SUPABASE_BLOCKED_OPERATIONS, Some(<<>>)).val]

\* projectRef is an optional string: a missing project_id is undefined
P2ValidateProjectAccess(cfg, projectRef) ==
    IF ~cfg.allowedProjects.some THEN TRUE
    ELSE projectRef.some /\ arrayIncludes(cfg.allowedProjects.val, projectRef.val)

EyJ == <<"e", "y", "J">>

\* P2ValidateApiKey without the format check: any key that is present passes
P2ValidateApiKeyPresentOnly(apiKey) ==
    IF ~Truthy(apiKey)
    THEN Err("validateApiKey", "ApiKeyRequired", "API key is required", <<>>, <<>>)
    ELSE NoError

P2ValidateApiKey(apiKey) ==
    IF ~Truthy(apiKey)
    THEN Err("validateApiKey", "ApiKeyRequired", "API key is required", <<>>, <<>>)
    ELSE IF ~startsWith(apiKey.val, EyJ)
    THEN Err("validateApiKey", "InvalidApiKey", "Invalid API key format", <<>>, <<>>)
    ELSE NoError

P2WriteOperations ==
    <<apply_migration, execute_sql_insert, execute_sql_update, execute_sql_delete>>

P2ValidateReadOnlyOperation(cfg, toolName) ==
    IF ~cfg.readOnly THEN TRUE
    ELSE ~arrayIncludes(P2WriteOperations, toolName)

P2ValidateBlockedOperation(cfg, toolName) ==
    ~arrayIncludes(cfg.blockedOperations, toolName)

P2DangerousPatterns ==
    << <<"D", "R", "O", "P", " ", "T", "A", "B", "L", "E">>,
       <<"T", "R", "U", "N", "C", "A", "T", "E", " ", "T", "A", "B", "L", "E">>,
       <<"D", "E", "L", "E", "T", "E", " ", "F", "R", "O", "M">>,
       <<"U", "P", "D", "A", "T", "E", " ">>,
       <<"C", "R", "E", "A", "T", "E", " ", "T", "A", "B", "L", "E">>,
       <<"A", "L", "T", "E", "R", " ", "T", "A", "B", "L", "E">>,
       <<"G", "R", "A", "N", "T", " ">>,
       <<"R", "E", "V", "O", "K", "E", " ">>,
       <<"D", "R", "O", "P", " ", "D", "A", "T", "A", "B", "A", "S", "E">>,
       <<"D", "R", "O", "P", " ", "S", "C", "H", "E", "M", "A">> >>

INSERT_INTO == <<"I", "N", "S", "E", "R", "T", " ", "I", "N", "T", "O">>

P2AllowedPatterns ==
    << <<"S", "E", "L", "E", "C", "T", " ">>,
       <<"I", "N", "S", "E", "R", "T", " ", "I", "N", "T", "O">>,
       <<"W", "I", "T", "H", " ">>,
       <<"E", "X", "P", "L", "A", "I", "N", " ">>,
       <<"D", "E", "S", "C", "R", "I", "B", "E", " ">> >>

\* P2SanitizeSqlQuery returning the text it matched on, uppercased and
\* trimmed, in place of the query it was given
P2SanitizeSqlQueryNormalized(cfg, q) ==
    LET upperQuery == trim(toUpperCase(q))
        Hit(pattern) == includes(upperQuery, pattern)
        first == FirstIndex(P2DangerousPatterns, Hit)
        Starts(pattern) == startsWith(upperQuery, pattern)
    IN  IF first # 0
        THEN Threw(Err("sanitizeSqlQuery", "Dangerous",
                 "Dangerous SQL operation blocked: ${pattern}",
                 P2DangerousPatterns[first], <<>>))
        ELSE IF cfg.readOnly /\ includes(upperQuery, INSERT_INTO)
        THEN Threw(Err("sanitizeSqlQuery", "InsertInReadOnly",
                 "INSERT operations are blocked in read-only mode", <<>>, <<>>))
        ELSE IF ~(\E i \in 1..Len(P2AllowedPatterns) : Starts(P2AllowedPatterns[i]))
        THEN Threw(Err("sanitizeSqlQuery", "NotInAllowList",
                 "Only SELECT, INSERT, WITH, EXPLAIN, and DESCRIBE operations are allowed",
                 <<>>, <<>>))
        ELSE Returned(upperQuery)

P2SanitizeSqlQuery(cfg, q) ==
    LET upperQuery == trim(toUpperCase(q))
        Hit(pattern) == includes(upperQuery, pattern)
        first == FirstIndex(P2DangerousPatterns, Hit)
        Starts(pattern) == startsWith(upperQuery, pattern)
    IN  IF first # 0
        THEN Threw(Err("sanitizeSqlQuery", "Dangerous",
                 "Dangerous SQL operation blocked: ${pattern}",
                 P2DangerousPatterns[first], <<>>))
        ELSE IF cfg.readOnly /\ includes(upperQuery, INSERT_INTO)
        THEN Threw(Err("sanitizeSqlQuery", "InsertInReadOnly",
                 "INSERT operations are blocked in read-only mode", <<>>, <<>>))
        ELSE IF ~(\E i \in 1..Len(P2AllowedPatterns) : Starts(P2AllowedPatterns[i]))
        THEN Threw(Err("sanitizeSqlQuery", "NotInAllowList",
                 "Only SELECT, INSERT, WITH, EXPLAIN, and DESCRIBE operations are allowed",
                 <<>>, <<>>))
        ELSE Returned(q)

\* the guard of the running variant
SanitizeOf(v, cfg, q) ==
    IF v = "secure" THEN SecureSanitizeSqlQuery(cfg, q) ELSE P2SanitizeSqlQuery(cfg, q)

\* the configuration the running variant builds at start-up
ConfigOf(v, e) == IF v = "secure" THEN loadSecurityConfig(e) ELSE P2SecurityConfig(e)

Variants == {"secure", "part002"}

(***************************************************************************)
(* Environments.                                                           *)
(***************************************************************************)
Comma == <<",">>
P1 == <<"p", "1">>
P2 == <<"p", "2">>

\* SUPABASE_ACCESS_TOKEN and SUPABASE_PROJECT_REF, the fall-backs of the
\* request headers, are unset in the environments of the model
EnvOf(ro, projects, schemas, tables, blocked) ==
    [SUPABASE_READ_ONLY          |-> ro,
     SUPABASE_ALLOWED_PROJECTS   |-> projects,
     SUPABASE_ALLOWED_SCHEMAS    |-> schemas,
     SUPABASE_ALLOWED_TABLES     |-> tables,
     SUPABASE_BLOCKED_OPERATIONS |-> blocked,
     SUPABASE_ACCESS_TOKEN       |-> None,
     SUPABASE_PROJECT_REF        |-> None]

(***************************************************************************)
(* The guard specification: sanitizeSqlQuery of either variant applied to  *)
(* queries built from fragments.                                           *)
(***************************************************************************)
Fragments ==
    { <<"S", "e", "l", "e", "c", "t", " ", "a", " ", "F", "r", "o", "m", " ", "t">>,
      <<" ">>,
      <<"\n">>,
      <<"\r">>,
      <<";">>,
      <<"d", "r", "o", "p">>,
      <<"t", "a", "b", "l", "e", " ", "t">>,
      <<"d", "r", "o", "p", " ", "s", "c", "h", "e", "m", "a", " ", "s">>,
      <<"u", "p", "d", "a", "t", "e", " ", "t">>,
      <<" ", "s", "e", "t", " ", "x">>,
      <<"d", "e", "l", "e", "t", "e", " ", "f", "r", "o", "m", " ", "t">>,
      <<"i", "n", "s", "e", "r", "t", " ", "i", "n", "t", "o", " ", "t">>,
      <<"U+017F", "e", "l", "e", "c", "t", " ", "a", " ", "f", "r", "o", "m", " ", "t">>,
      <<"d", "r", "o", "p", " ", "U+017F", "c", "h", "e", "m", "a", " ", "s">>,
      <<"U+D801", "U+DC28">> }

RECURSIVE Concat(_)
Concat(parts) == IF parts = <<>> THEN <<>> ELSE Head(parts) \o Concat(Tail(parts))

Queries ==
    { Concat(parts) : parts \in UNION { [1..n -> Fragments] : n \in 0..MaxFrags } }

NoOutcome == [ok |-> FALSE, value |-> <<>>, error |-> NoError]

\* no access check made yet
NoCheck == [done |-> FALSE, projectRef |-> <<>>, schemas |-> <<>>, tables |-> <<>>,
            projectOk |-> FALSE, schemasOk |-> FALSE, tablesOk |-> FALSE,
            invalid |-> <<>>]

\* no request is being handled
IdleRequest == [method |-> "", token |-> None, projectRef |-> None, apiKey |-> None,
                params |-> None, id |-> None, now |-> <<>>]

Clients == 1..MaxClients

\* a handler of index-production.js that holds no request: no server
\* instance, no call forwarded, no response
IdleHandler == [pc |-> "idle", req |-> IdleRequest, server |-> None,
                forwarded |-> <<>>, response |-> NoError, result |-> ""]

NoRequests == [c \in Clients |-> IdleHandler]

InitGuard ==
    /\ variant \in Variants
    /\ env \in { EnvOf(ro, None, None, None, None) : ro \in {None, Some(EnvTrue)} }
    /\ securityConfig = ConfigOf(variant, env)
    /\ pc = "idle"
    /\ request = IdleRequest
    /\ events = <<>>
    /\ forwarded = <<>>
    /\ guardEvals = 0
    /\ ended = 0
    /\ query \in Queries
    /\ guardOut = NoOutcome
    /\ policyOut = NoCheck
    /\ inflight = NoRequests
    /\ status = 0
    /\ json = None
    /\ supabaseMcpServer = None
    /\ initRuns = 0

\* sanitizeSqlQuery(query) is called once
Sanitize ==
    /\ guardEvals = 0
    /\ guardOut' = SanitizeOf(variant, securityConfig, query)
    /\ guardEvals' = 1
    /\ UNCHANGED <<status, json, supabaseMcpServer, initRuns, inflight, variant, env, securityConfig, pc, request, events, forwarded,
                   ended, query, policyOut>>

NextGuard == Sanitize

SpecGuard == InitGuard /\ [][NextGuard]_vars

(***************************************************************************)
(* The policy specification: the configuration each variant loads from    *)
(* the environment, and its access checks applied to references.           *)
(***************************************************************************)
users == <<"u", "s", "e", "r", "s">>
orders == <<"o", "r", "d", "e", "r", "s">>

ProjectEnvValues ==
    {None, Some(<<>>), Some(P1), Some(P1 \o Comma \o P2)}
SchemaEnvValues ==
    {None, Some(<<>>), Some(public), Some(public \o Comma \o private)}
TableEnvValues == {None, Some(<<>>), Some(users)}

\* a member of the allow-list, a case variant, a substring, a superstring,
\* another member, a stranger
ProjectRefs == {P1, <<"P", "1">>, <<"p">>, <<"p", "1", "2">>, P2, <<"p", "3">>}

SchemaNames == {public, private}
SchemaLists == UNION { [1..n -> SchemaNames] : n \in 0..MaxSchemas }
TableLists == {<<>>, <<users>>, <<orders>>, <<users, orders>>}

InitPolicy ==
    /\ variant \in Variants
    /\ env \in { EnvOf(None, p, s, t, None) :
                   p \in ProjectEnvValues, s \in SchemaEnvValues, t \in TableEnvValues }
    /\ securityConfig = ConfigOf(variant, env)
    /\ pc = "idle"
    /\ request = IdleRequest
    /\ events = <<>>
    /\ forwarded = <<>>
    /\ guardEvals = 0
    /\ ended = 0
    /\ query = <<>>
    /\ guardOut = NoOutcome
    /\ policyOut = NoCheck
    /\ inflight = NoRequests
    /\ status = 0
    /\ json = None
    /\ supabaseMcpServer = None
    /\ initRuns = 0

\* the checks of the secure server on one project, schema list and table list
SecureCheckAccess(cfg, projectRef, schemas, tables) ==
    [done |-> TRUE, projectRef |-> projectRef, schemas |-> schemas, tables |-> tables,
     projectOk |-> SecureValidateProjectAccess(cfg, projectRef) = NoError,
     schemasOk |-> SecureValidateSchemaAccess(cfg, schemas) = NoError,
     tablesOk  |-> SecureValidateTableAccess(cfg, tables) = NoError,
     invalid   |-> SecureValidateSchemaAccess(cfg, schemas).names]

\* part_002 checks the project only: it has no schema or table check, so no
\* schema or table is ever refused
P2CheckAccess(cfg, projectRef, schemas, tables) ==
    [done |-> TRUE, projectRef |-> projectRef, schemas |-> schemas, tables |-> tables,
     projectOk |-> P2ValidateProjectAccess(cfg, Some(projectRef)),
     schemasOk |-> TRUE,
     tablesOk  |-> TRUE,
     invalid   |-> <<>>]

CheckAccess ==
    /\ ~policyOut.done
    /\ \E projectRef \in ProjectRefs, schemas \in SchemaLists, tables \in TableLists :
          policyOut' = IF variant = "secure"
                       THEN SecureCheckAccess(securityConfig, projectRef, schemas, tables)
                       ELSE P2CheckAccess(securityConfig, projectRef, schemas, tables)
    /\ UNCHANGED <<status, json, supabaseMcpServer, initRuns, inflight, variant, env, securityConfig, pc, request, events, forwarded,
                   guardEvals, ended, query, guardOut>>

NextPolicy == CheckAccess

SpecPolicy == InitPolicy /\ [][NextPolicy]_vars

(***************************************************************************)
(* POST /mcp.  A request is the part of the HTTP request the handlers read: *)
(* the body's method and params, and the headers x-supabase-token,         *)
(* x-project-ref and x-supabase-key.  params, when present, holds name,    *)
(* arguments and uri; arguments, when present, holds query, project_id,    *)
(* schemas and table_name.  Every one of them may be missing.              *)
(***************************************************************************)
Args(q, project_id, schemas, table_name) ==
    [query |-> q, project_id |-> project_id, schemas |-> schemas,
     table_name |-> table_name]

Params(name, arguments, uri) == [name |-> name, arguments |-> arguments, uri |-> uri]

Request(method, token, projectRef, apiKey, params) ==
    [method |-> method, token |-> token, projectRef |-> projectRef,
     apiKey |-> apiKey, params |-> params, id |-> None, now |-> <<>>]

\* the id field of a request body, when it has one, and the clock reading
\* Date.now() gives while the request is handled
Arrivals == { <<None, <<"1">>>>, <<Some(<<"7">>), <<"2">>>> }

\* `req_${Date.now()}`; the secure server appends a random suffix
GeneratedId(now) == <<"r", "e", "q", "_">> \o now

\* const requestId of each handler: the secure server always generates it,
\* part_002 takes req.body.id when the body has one
SecureRequestId(req) == GeneratedId(req.now) \o <<"_", "x">>

P2RequestId(req) == IF Truthy(req.id) THEN req.id.val ELSE GeneratedId(req.now)

\* every event of a response is written with the requestId of its handler
Stamped(requestId, evs) ==
    [i \in 1..Len(evs) |->
        [id |-> requestId, type |-> evs[i].type, data |-> evs[i].data,
         error |-> evs[i].error]]

\* Event with the error left out: the client is told that the request
\* failed, not why
EventWithoutReason(type, data, error) == [type |-> type, data |-> data, error |-> NoError]

\* an event written to the response stream; type is "" when the event has
\* no type field
Event(type, data, error) == [type |-> type, data |-> data, error |-> error]

\* an Error that no validator threw
Plain(kind, text) == Err("", kind, text, <<>>, <<>>)

\* Handled with the status chosen by the outcome: a response whose last
\* event is an error has status 400
HandledStatusByOutcome(cfg, evs, fwd, evals, ends) ==
    [status |-> IF Len(evs) > 0 /\ evs[Len(evs)].type = "error" THEN 400 ELSE 200,
     events |-> evs, forwarded |-> fwd, guardEvals |-> evals, ended |-> ends,
     config |-> cfg]

\* what a streaming handler did: the status of the head it wrote before
\* anything else (res.writeHead(200, ...)), the events it wrote, the calls it
\* forwarded, the number of guard evaluations, the number of res.end() calls,
\* and the securityConfig object as the handler leaves it.  The handler and
\* the functions it calls reach the object through this.securityConfig (the
\* module-level const in part_002) and use length, includes and filter on its
\* lists and read its fields, so the object they leave is cfg
Handled(cfg, evs, fwd, evals, ends) ==
    [status |-> 200, events |-> evs, forwarded |-> fwd, guardEvals |-> evals,
     ended |-> ends, config |-> cfg]

\* the outcome of a switch arm or tool: error is NoError when it returned
Outcome(error, fwd, evals) ==
    [error |-> error, forwarded |-> fwd, guardEvals |-> evals,
     result |-> IF error = NoError THEN "result" ELSE ""]

(***************************************************************************)
(* The secure server's handler.                                            *)
(***************************************************************************)
\* params.arguments || {}: arguments that are missing become the empty
\* object
OrEmpty(arguments) ==
    IF arguments.some THEN arguments ELSE Some(Args(None, None, None, None))

\* executeTool(toolName, toolArguments, projectRef): the forwarding step
ExecuteToolCall(toolName, toolArguments, projectRef) ==
    [target |-> "executeTool", name |-> toolName, arguments |-> toolArguments,
     projectRef |-> projectRef]

\* SecureToolsCall with the guard's verdict dropped: the query is checked
\* and the call is forwarded whatever the guard said
SecureToolsCallUnguarded(cfg, params, projectRef) ==
    IF ~params.some \/ ~Truthy(params.val.name)
    THEN Outcome(Plain("ToolNameRequired", "Tool name is required for tools/call"), <<>>, 0)
    ELSE
    LET name == params.val.name.val
        arguments == params.val.arguments
        readOnlyError == SecureValidateReadOnlyOperation(cfg, name)
        blockedError == SecureValidateBlockedOperation(cfg, name)
        checksSchemas == name = list_tables /\ arguments.some /\ arguments.val.schemas.some
        schemaError == IF checksSchemas
                       THEN SecureValidateSchemaAccess(cfg, arguments.val.schemas.val)
                       ELSE NoError
        checksQuery == name = execute_sql /\ arguments.some /\ Truthy(arguments.val.query)
    IN  IF readOnlyError # NoError THEN Outcome(readOnlyError, <<>>, 0)
        ELSE IF blockedError # NoError THEN Outcome(blockedError, <<>>, 0)
        ELSE IF schemaError # NoError THEN Outcome(schemaError, <<>>, 0)
        ELSE Outcome(NoError, <<ExecuteToolCall(name, OrEmpty(arguments), projectRef)>>,
                     IF checksQuery THEN 1 ELSE 0)

\* case 'tools/call'
SecureToolsCall(cfg, params, projectRef) ==
    IF ~params.some \/ ~Truthy(params.val.name)
    THEN Outcome(Plain("ToolNameRequired", "Tool name is required for tools/call"), <<>>, 0)
    ELSE
    LET name == params.val.name.val
        arguments == params.val.arguments
        readOnlyError == SecureValidateReadOnlyOperation(cfg, name)
        blockedError == SecureValidateBlockedOperation(cfg, name)
        checksSchemas == name = list_tables /\ arguments.some /\ arguments.val.schemas.some
        schemaError == IF checksSchemas
                       THEN SecureValidateSchemaAccess(cfg, arguments.val.schemas.val)
                       ELSE NoError
        checksQuery == name = execute_sql /\ arguments.some /\ Truthy(arguments.val.query)
        guarded == IF checksQuery
                   THEN SecureSanitizeSqlQuery(cfg, arguments.val.query.val)
                   ELSE Returned(<<>>)
    IN  IF readOnlyError # NoError THEN Outcome(readOnlyError, <<>>, 0)
        ELSE IF blockedError # NoError THEN Outcome(blockedError, <<>>, 0)
        ELSE IF schemaError # NoError THEN Outcome(schemaError, <<>>, 0)
        ELSE IF ~guarded.ok THEN Outcome(guarded.error, <<>>, 1)
        ELSE Outcome(NoError, <<ExecuteToolCall(name, OrEmpty(arguments), projectRef)>>,
                     IF checksQuery THEN 1 ELSE 0)

\* the switch on method
SecureDispatch(cfg, method, params, projectRef) ==
    IF method = "tools/call" THEN SecureToolsCall(cfg, params, projectRef)
    ELSE IF method \in {"tools/list", "prompts/list", "resources/list"}
    THEN Outcome(NoError, <<>>, 0)
    ELSE IF method = "prompts/get"
    THEN IF ~params.some \/ ~Truthy(params.val.name)
         THEN Outcome(Plain("PromptNameRequired", "Prompt name is required for prompts/get"),
                      <<>>, 0)
         ELSE Outcome(NoError, <<>>, 0)
    ELSE IF method = "resources/read"
    THEN IF ~params.some \/ ~Truthy(params.val.uri)
         THEN Outcome(Plain("ResourceUriRequired",
                            "Resource URI is required for resources/read"), <<>>, 0)
         ELSE Outcome(NoError, <<>>, 0)
    ELSE Outcome(Plain("UnsupportedMethod", "Unsupported MCP method: ${method}"), <<>>, 0)

\* SecureHandle writing the completion event after the catch clause: a
\* response whose dispatch threw carries 'error' and then 'complete'
SecureHandleCompletesAfterCatch(cfg, e, req) ==
    LET supabaseToken == IF Truthy(req.token) THEN req.token ELSE e.SUPABASE_ACCESS_TOKEN
        projectRef == IF Truthy(req.projectRef) THEN req.projectRef
                      ELSE e.SUPABASE_PROJECT_REF
        Refuse(error) == Handled(cfg, <<Event("error", "", error)>>, <<>>, 0, 1)
        start == Event("data", "start", NoError)
    IN  IF ~Truthy(supabaseToken)
        THEN Refuse(Plain("TokenRequired", "Supabase access token required"))
        ELSE IF ~Truthy(projectRef)
        THEN Refuse(Plain("ProjectRefRequired", "Supabase project reference required"))
        ELSE IF SecureValidateProjectAccess(cfg, projectRef.val) # NoError
        THEN Refuse(SecureValidateProjectAccess(cfg, projectRef.val))
        ELSE IF req.method = ""
        THEN Refuse(Plain("MethodRequired", "MCP method is required"))
        ELSE LET out == SecureDispatch(cfg, req.method, req.params, projectRef.val)
             IN  IF out.error # NoError
                 THEN Handled(cfg, <<start, Event("error", "", out.error),
                                     Event("complete", "complete", NoError)>>,
                              out.forwarded, out.guardEvals, 1)
                 ELSE Handled(cfg, <<start, Event("data", out.result, NoError),
                                     Event("complete", "complete", NoError)>>,
                              out.forwarded, out.guardEvals, 1)

\* SecureHandle whose project check adds the reference it refuses to
\* securityConfig.allowedProjects (push after the failed includes): the
\* request is denied, the configuration object is changed
SecureHandleEnrollingProject(cfg, e, req) ==
    LET supabaseToken == IF Truthy(req.token) THEN req.token ELSE e.SUPABASE_ACCESS_TOKEN
        projectRef == IF Truthy(req.projectRef) THEN req.projectRef
                      ELSE e.SUPABASE_PROJECT_REF
        Refuse(error) == Handled(cfg, <<Event("error", "", error)>>, <<>>, 0, 1)
        start == Event("data", "start", NoError)
    IN  IF ~Truthy(supabaseToken)
        THEN Refuse(Plain("TokenRequired", "Supabase access token required"))
        ELSE IF ~Truthy(projectRef)
        THEN Refuse(Plain("ProjectRefRequired", "Supabase project reference required"))
        ELSE IF SecureValidateProjectAccess(cfg, projectRef.val) # NoError
        THEN [Refuse(SecureValidateProjectAccess(cfg, projectRef.val)) EXCEPT
                 !.config.allowedProjects = Append(@, projectRef.val)]
        ELSE IF req.method = ""
        THEN Refuse(Plain("MethodRequired", "MCP method is required"))
        ELSE LET out == SecureDispatch(cfg, req.method, req.params, projectRef.val)
             IN  IF out.error # NoError
                 THEN Handled(cfg, <<start, Event("error", "", out.error)>>,
                              out.forwarded, out.guardEvals, 1)
                 ELSE Handled(cfg, <<start, Event("data", out.result, NoError),
                                     Event("complete", "complete", NoError)>>,
                              out.forwarded, out.guardEvals, 1)

\* app.post('/mcp') of the secure server
SecureHandle(cfg, e, req) ==
    LET supabaseToken == IF Truthy(req.token) THEN req.token ELSE e.SUPABASE_ACCESS_TOKEN
        projectRef == IF Truthy(req.projectRef) THEN req.projectRef
                      ELSE e.SUPABASE_PROJECT_REF
        Refuse(error) == Handled(cfg, <<Event("error", "", error)>>, <<>>, 0, 1)
        start == Event("data", "start", NoError)
    IN  IF ~Truthy(supabaseToken)
        THEN Refuse(Plain("TokenRequired", "Supabase access token required"))
        ELSE IF ~Truthy(projectRef)
        THEN Refuse(Plain("ProjectRefRequired", "Supabase project reference required"))
        ELSE IF SecureValidateProjectAccess(cfg, projectRef.val) # NoError
        THEN Refuse(SecureValidateProjectAccess(cfg, projectRef.val))
        ELSE IF req.method = ""
        THEN Refuse(Plain("MethodRequired", "MCP method is required"))
        ELSE LET out == SecureDispatch(cfg, req.method, req.params, projectRef.val)
             IN  IF out.error # NoError
                 THEN Handled(cfg, <<start, Event("error", "", out.error)>>,
                              out.forwarded, out.guardEvals, 1)
                 ELSE Handled(cfg, <<start, Event("data", out.result, NoError),
                                     Event("complete", "complete", NoError)>>,
                              out.forwarded, out.guardEvals, 1)

(***************************************************************************)
(* The handler of part_002.  The outcome of each request to Supabase       *)
(* ("ok" or "fail") is an input of the handler.                            *)
(***************************************************************************)
\* makeSupabaseRequest(projectRef, apiKey, endpoint, method, data): the
\* forwarding step
SupabaseRequest(projectRef, apiKey, endpoint, method, table, data) ==
    [target |-> "makeSupabaseRequest", projectRef |-> projectRef, apiKey |-> apiKey,
     endpoint |-> endpoint, method |-> method, table |-> table, data |-> data,
     settled |-> ""]

\* the answers of Supabase to a request: "ok" is a 2xx answer whose body is
\* a list of rows, "null" a 2xx answer with the body null, "nullrow" a 2xx
\* answer with the body [null]; "fail" is any answer or network error for
\* which makeSupabaseRequest rejects
SupabaseAnswers == {"ok", "null", "nullrow", "fail"}

\* the request with the way its promise settled: "ok" when it resolved,
\* "fail" when it rejected
Settled(call, outcome) ==
    [call EXCEPT !.settled = IF outcome = "fail" THEN "fail" ELSE "ok"]

\* the request made and not yet answered
Pending(call) == [call EXCEPT !.settled = ""]

P2ProjectDenied(project_id) ==
    Err("validateProjectAccess", "ProjectNotAllowed",
        "Access denied for project: ${project_id}", <<>>,
        IF project_id.some THEN <<project_id.val>> ELSE <<>>)

\* P2ExecuteSql with the guard run first: the query is sanitized before the
\* project and the key are checked
P2ExecuteSqlGuardFirst(cfg, params, apiKey, o1, o2) ==
    IF ~params.some
    THEN Outcome(Plain("TypeError", "Cannot destructure property 'query' of 'params'"),
                 <<>>, 0)
    ELSE
    LET q == params.val.query
        project_id == params.val.project_id
        guarded == P2SanitizeSqlQuery(cfg, q.val)
        primary == SupabaseRequest(project_id, apiKey, "/rest/v1/rpc/execute_sql",
                                   "POST", None, Some(guarded.value))
        fallback == SupabaseRequest(project_id, apiKey, "/rest/v1/", "POST", None,
                                    Some(guarded.value))
    IN  IF ~q.some
        THEN Outcome(Plain("TypeError",
                           "Cannot read properties of undefined (reading 'toUpperCase')"),
                     <<>>, 1)
        ELSE IF ~guarded.ok THEN Outcome(guarded.error, <<>>, 1)
        ELSE IF ~P2ValidateProjectAccess(cfg, project_id)
        THEN Outcome(P2ProjectDenied(project_id), <<>>, 1)
        ELSE IF P2ValidateApiKey(apiKey) # NoError
        THEN Outcome(P2ValidateApiKey(apiKey), <<>>, 1)
        ELSE IF o1 # "fail" THEN Outcome(NoError, <<Settled(primary, o1)>>, 1)
        ELSE IF o2 # "fail"
        THEN Outcome(NoError, <<Settled(primary, o1), Settled(fallback, o2)>>, 1)
        ELSE Outcome(Plain("SqlExecutionFailed",
                           "SQL execution failed: ${fallbackError.message}"),
                     <<Settled(primary, o1), Settled(fallback, o2)>>, 1)

\* P2ExecuteSql with a second fall-back attempt: when the primary and the
\* fall-back request failed the fall-back request is made once more
P2ExecuteSqlRetrying(cfg, params, apiKey, o1, o2) ==
    IF ~params.some
    THEN Outcome(Plain("TypeError", "Cannot destructure property 'query' of 'params'"),
                 <<>>, 0)
    ELSE
    LET q == params.val.query
        project_id == params.val.project_id
        guarded == P2SanitizeSqlQuery(cfg, q.val)
        primary == SupabaseRequest(project_id, apiKey, "/rest/v1/rpc/execute_sql",
                                   "POST", None, Some(guarded.value))
        fallback == SupabaseRequest(project_id, apiKey, "/rest/v1/", "POST", None,
                                    Some(guarded.value))
    IN  IF ~P2ValidateProjectAccess(cfg, project_id)
        THEN Outcome(P2ProjectDenied(project_id), <<>>, 0)
        ELSE IF P2ValidateApiKey(apiKey) # NoError
        THEN Outcome(P2ValidateApiKey(apiKey), <<>>, 0)
        ELSE IF ~q.some
        THEN Outcome(Plain("TypeError",
                           "Cannot read properties of undefined (reading 'toUpperCase')"),
                     <<>>, 1)
        ELSE IF ~guarded.ok THEN Outcome(guarded.error, <<>>, 1)
        ELSE IF o1 # "fail" THEN Outcome(NoError, <<Settled(primary, o1)>>, 1)
        ELSE IF o2 # "fail"
        THEN Outcome(NoError, <<Settled(primary, o1), Settled(fallback, o2)>>, 1)
        ELSE Outcome(Plain("SqlExecutionFailed",
                           "SQL execution failed: ${fallbackError.message}"),
                     <<Settled(primary, o1), Settled(fallback, o2),
                       Settled(fallback, o2)>>, 1)

\* mcpTools['execute_sql']
P2ExecuteSql(cfg, params, apiKey, o1, o2) ==
    IF ~params.some
    THEN Outcome(Plain("TypeError", "Cannot destructure property 'query' of 'params'"),
                 <<>>, 0)
    ELSE
    LET q == params.val.query
        project_id == params.val.project_id
        guarded == P2SanitizeSqlQuery(cfg, q.val)
        primary == SupabaseRequest(project_id, apiKey, "/rest/v1/rpc/execute_sql",
                                   "POST", None, Some(guarded.value))
        fallback == SupabaseRequest(project_id, apiKey, "/rest/v1/", "POST", None,
                                    Some(guarded.value))
    IN  IF ~P2ValidateProjectAccess(cfg, project_id)
        THEN Outcome(P2ProjectDenied(project_id), <<>>, 0)
        ELSE IF P2ValidateApiKey(apiKey) # NoError
        THEN Outcome(P2ValidateApiKey(apiKey), <<>>, 0)
        ELSE IF ~q.some
        THEN Outcome(Plain("TypeError",
                           "Cannot read properties of undefined (reading 'toUpperCase')"),
                     <<>>, 1)
        ELSE IF ~guarded.ok THEN Outcome(guarded.error, <<>>, 1)
        ELSE IF o1 # "fail" THEN Outcome(NoError, <<Settled(primary, o1)>>, 1)
        ELSE IF o2 # "fail"
        THEN Outcome(NoError, <<Settled(primary, o1), Settled(fallback, o2)>>, 1)
        ELSE Outcome(Plain("SqlExecutionFailed",
                           "SQL execution failed: ${fallbackError.message}"),
                     <<Settled(primary, o1), Settled(fallback, o2)>>, 1)

\* P2ListTables without its catch clause: a failure of the request is thrown
\* to the handler
P2ListTablesThrowing(cfg, params, apiKey, o1) ==
    IF ~params.some
    THEN Outcome(Plain("TypeError", "Cannot destructure property 'project_id' of 'params'"),
                 <<>>, 0)
    ELSE
    LET project_id == params.val.project_id
        call == SupabaseRequest(project_id, apiKey, "/rest/v1/", "GET", None, None)
    IN  IF ~P2ValidateProjectAccess(cfg, project_id)
        THEN Outcome(P2ProjectDenied(project_id), <<>>, 0)
        ELSE IF P2ValidateApiKey(apiKey) # NoError
        THEN Outcome(P2ValidateApiKey(apiKey), <<>>, 0)
        ELSE IF o1 = "ok" THEN Outcome(NoError, <<Settled(call, o1)>>, 0)
        ELSE Outcome(Plain("SupabaseApiError", "Supabase API error"),
                     <<Settled(call, o1)>>, 0)

\* mcpTools['list_tables']
P2ListTables(cfg, params, apiKey, o1) ==
    IF ~params.some
    THEN Outcome(Plain("TypeError", "Cannot destructure property 'project_id' of 'params'"),
                 <<>>, 0)
    ELSE
    LET project_id == params.val.project_id
        call == SupabaseRequest(project_id, apiKey, "/rest/v1/", "GET", None, None)
    IN  IF ~P2ValidateProjectAccess(cfg, project_id)
        THEN Outcome(P2ProjectDenied(project_id), <<>>, 0)
        ELSE IF P2ValidateApiKey(apiKey) # NoError
        THEN Outcome(P2ValidateApiKey(apiKey), <<>>, 0)
        ELSE IF o1 = "ok" THEN Outcome(NoError, <<Settled(call, o1)>>, 0)
        ELSE [Outcome(NoError, <<Settled(call, o1)>>, 0)
                  EXCEPT !.result = "could not retrieve"]

\* mcpTools['describe_table']
P2DescribeTable(cfg, params, apiKey, o1) ==
    IF ~params.some
    THEN Outcome(Plain("TypeError", "Cannot destructure property 'table_name' of 'params'"),
                 <<>>, 0)
    ELSE
    LET project_id == params.val.project_id
        call == SupabaseRequest(project_id, apiKey, "/rest/v1/${table_name}?limit=1",
                                "GET", params.val.table_name, None)
    IN  IF ~P2ValidateProjectAccess(cfg, project_id)
        THEN Outcome(P2ProjectDenied(project_id), <<>>, 0)
        ELSE IF P2ValidateApiKey(apiKey) # NoError
        THEN Outcome(P2ValidateApiKey(apiKey), <<>>, 0)
        ELSE IF o1 \in {"ok", "null"} THEN Outcome(NoError, <<Settled(call, o1)>>, 0)
        ELSE [Outcome(NoError, <<Settled(call, o1)>>, 0)
                  EXCEPT !.result = "could not retrieve"]

tools_list == <<"t", "o", "o", "l", "s", "/", "l", "i", "s", "t">>

\* mcpTools is a plain object: mcpTools[name] also finds the properties it
\* inherits from Object.prototype.  Called as mcpTools[name](toolArguments,
\* apiKey) these return a value
InheritedReturning ==
    { <<"t", "o", "S", "t", "r", "i", "n", "g">>,
      <<"t", "o", "L", "o", "c", "a", "l", "e", "S", "t", "r", "i", "n", "g">>,
      <<"v", "a", "l", "u", "e", "O", "f">>,
      <<"h", "a", "s", "O", "w", "n", "P", "r", "o", "p", "e", "r", "t", "y">>,
      <<"i", "s", "P", "r", "o", "t", "o", "t", "y", "p", "e", "O", "f">>,
      <<"p", "r", "o", "p", "e", "r", "t", "y", "I", "s", "E", "n", "u", "m", "e", "r", "a", "b", "l", "e">>,
      <<"c", "o", "n", "s", "t", "r", "u", "c", "t", "o", "r">> }

\* these return undefined, which JSON.stringify leaves out of the result
\* event
InheritedUndefined ==
    { <<"_", "_", "l", "o", "o", "k", "u", "p", "G", "e", "t", "t", "e", "r", "_", "_">>,
      <<"_", "_", "l", "o", "o", "k", "u", "p", "S", "e", "t", "t", "e", "r", "_", "_">> }

\* and these throw a TypeError: __proto__ is not a function, the two others
\* reject apiKey as an accessor function
InheritedThrowing ==
    { <<"_", "_", "p", "r", "o", "t", "o", "_", "_">>,
      <<"_", "_", "d", "e", "f", "i", "n", "e", "G", "e", "t", "t", "e", "r", "_", "_">>,
      <<"_", "_", "d", "e", "f", "i", "n", "e", "S", "e", "t", "t", "e", "r", "_", "_">> }

\* the tools mcpTools defines
OwnTools == {tools_list, execute_sql, list_tables, describe_table}


\* the branch method === 'tools/call'
P2ToolsCall(cfg, params, apiKey, o1, o2) ==
    IF ~params.some
    THEN Outcome(Plain("TypeError", "Cannot destructure property 'name' of 'params'"),
                 <<>>, 0)
    ELSE
    LET name == params.val.name
        toolArguments == params.val.arguments
    IN  IF name.some /\ ~P2ValidateReadOnlyOperation(cfg, name.val)
        THEN Outcome(Err("validateReadOnlyOperation", "ReadOnlyViolation",
                         "Operation '${name}' is blocked in read-only mode",
                         <<>>, <<name.val>>), <<>>, 0)
        ELSE IF name.some /\ ~P2ValidateBlockedOperation(cfg, name.val)
        THEN Outcome(Err("validateBlockedOperation", "ExplicitlyBlocked",
                         "Operation '${name}' is blocked by configuration",
                         <<>>, <<name.val>>), <<>>, 0)
        ELSE IF name = Some(tools_list) THEN Outcome(NoError, <<>>, 0)
        ELSE IF name = Some(execute_sql) THEN P2ExecuteSql(cfg, toolArguments, apiKey, o1, o2)
        ELSE IF name = Some(list_tables) THEN P2ListTables(cfg, toolArguments, apiKey, o1)
        ELSE IF name = Some(describe_table)
        THEN P2DescribeTable(cfg, toolArguments, apiKey, o1)
        ELSE IF name.some /\ name.val \in InheritedReturning
        THEN Outcome(NoError, <<>>, 0)
        ELSE IF name.some /\ name.val \in InheritedUndefined
        THEN [Outcome(NoError, <<>>, 0) EXCEPT !.result = ""]
        ELSE IF name.some /\ name.val \in InheritedThrowing
        THEN Outcome(Plain("TypeError", "${name} called as a tool throws a TypeError"),
                     <<>>, 0)
        ELSE Outcome(Plain("UnknownTool", "Unknown tool: ${name}"), <<>>, 0)

\* the handler awaits the tool: mcpTools[name] was called and returned a
\* promise or a value
P2AwaitsTool(cfg, req) ==
    /\ req.method = "tools/call"
    /\ Truthy(req.apiKey)
    /\ req.params.some
    /\ req.params.val.name.some
    /\ P2ValidateReadOnlyOperation(cfg, req.params.val.name.val)
    /\ P2ValidateBlockedOperation(cfg, req.params.val.name.val)
    /\ req.params.val.name.val \in OwnTools \cup InheritedReturning \cup InheritedUndefined

\* app.post('/mcp') of part_002
P2Handle(cfg, req, o1, o2) ==
    LET Refuse(error) == Handled(cfg, <<Event("error", "", error)>>, <<>>, 0, 1)
        start == Event("data", "start", NoError)
        out == IF req.method = "tools/list" THEN Outcome(NoError, <<>>, 0)
               ELSE IF req.method = "tools/call"
               THEN P2ToolsCall(cfg, req.params, req.apiKey, o1, o2)
               ELSE Outcome(Plain("UnknownMethod", "Unknown MCP method: ${method}"), <<>>, 0)
    IN  IF req.method = ""
        THEN Refuse(Plain("MethodRequired", "MCP method is required"))
        ELSE IF req.method = "tools/call" /\ ~Truthy(req.apiKey)
        THEN Refuse(Plain("ApiKeyRequired", "API key is required for tool calls"))
        ELSE IF out.error # NoError
        THEN Handled(cfg, <<start, Event("error", "", out.error)>>,
                     out.forwarded, out.guardEvals, 1)
        ELSE Handled(cfg, <<start, Event("", out.result, NoError),
                            Event("complete", "", NoError)>>,
                     out.forwarded, out.guardEvals, 1)

(***************************************************************************)
(* The requests and environments of the pipeline specification.            *)
(***************************************************************************)
P3 == <<"p", "3">>

PipelineEnvs ==
    { EnvOf(ro, p, s, tb, b) :
        ro \in {None, Some(EnvTrue)},
        p \in {None, Some(<<>>), Some(P1 \o Comma \o P2)},
        s \in {None, Some(<<>>)},
        tb \in {None, Some(users)},
        b \in {None, Some(describe_table \o Comma \o apply_migration)} }

\* an accepted query in mixed case with white space around it
PaddedQuery == <<" ", "S", "e", "l", "e", "c", "t", " ", "a", " ", "F", "r", "o", "m", " ", "t", "\n">>

\* the queries of the execute_sql calls: missing, empty, accepted by both
\* guards, on the deny-list, an INSERT, accepted with white space around it
PipelineQueries ==
    { None, Some(<<>>), Some(<<"S", "e", "l", "e", "c", "t", " ", "a", " ", "F", "r", "o", "m", " ", "t">>), Some(<<"d", "r", "o", "p", " ", "t", "a", "b", "l", "e", " ", "t">>),
      Some(<<"i", "n", "s", "e", "r", "t", " ", "i", "n", "t", "o", " ", "t">>),
      Some(PaddedQuery) }

SchemaArgs == {None} \cup { Some(l) : l \in SchemaLists }

ToolNames ==
    { execute_sql, list_tables, describe_table, apply_migration, execute_sql_insert,
      create_project, get_project_url }

NoArgsCalls == { Some(Params(Some(n), None, None)) : n \in ToolNames }

\* the params of the requests the secure server receives
SecureParams ==
    {None, Some(Params(None, None, None))}
    \cup NoArgsCalls
    \cup { Some(Params(Some(execute_sql), Some(Args(q, None, None, None)), None)) :
             q \in PipelineQueries }
    \cup { Some(Params(Some(list_tables), Some(Args(None, None, s, None)), None)) :
             s \in SchemaArgs }
    \cup { Some(Params(Some(describe_table), Some(Args(None, None, None, Some(tb))), None)) :
             tb \in {users, orders} }

SecureRequests ==
    { Request(m, token, ref, None, None) :
        m \in {"", "tools/list", "prompts/list", "resources/list", "prompts/get",
               "resources/read", "notifications/x"},
        token \in {None, Some(<<"t", "o", "k">>)}, ref \in {None, Some(P1), Some(P3)} }
    \cup { Request("tools/call", token, ref, None, p) :
             token \in {None, Some(<<"t", "o", "k">>)}, ref \in {None, Some(P1), Some(P3)},
             p \in SecureParams }
    \cup { Request(m, Some(<<"t", "o", "k">>), Some(P1), None, p) :
             m \in {"prompts/get", "resources/read"},
             p \in { Some(Params(Some(<<"x">>), None, None)),
                     Some(Params(None, None, Some(<<"x">>))) } }

\* the params of the requests part_002 receives
P2Params ==
    {None, Some(Params(None, None, None)), Some(Params(Some(tools_list), None, None))}
    \cup NoArgsCalls
    \cup { Some(Params(Some(execute_sql), Some(Args(q, ref, None, None)), None)) :
             q \in PipelineQueries, ref \in {None, Some(P1), Some(P3)} }
    \cup { Some(Params(Some(list_tables), Some(Args(None, ref, None, None)), None)) :
             ref \in {None, Some(P1), Some(P3)} }
    \cup { Some(Params(Some(describe_table), Some(Args(None, ref, None, Some(users))), None)) :
             ref \in {None, Some(P1), Some(P3)} }
    \cup { Some(Params(Some(n), Some(Args(None, None, None, None)), None)) :
             n \in {<<"t", "o", "S", "t", "r", "i", "n", "g">>,
                    <<"_", "_", "p", "r", "o", "t", "o", "_", "_">>,
                    <<"_", "_", "l", "o", "o", "k", "u", "p", "G", "e", "t", "t", "e", "r", "_", "_">>} }

ApiKeys == {None, Some(<<"e", "y", "J", "x">>), Some(<<"k", "e", "y">>)}

P2Requests ==
    { Request(m, None, None, k, None) :
        m \in {"", "tools/list", "prompts/list"}, k \in ApiKeys }
    \cup { Request("tools/call", None, None, k, p) : k \in ApiKeys, p \in P2Params }
    \cup { Request("tools/list", None, Some(P3), k, None) : k \in ApiKeys }

\* the word the health bodies use for an allow-list without entries
All == <<"a", "l", "l">>

\* the body of GET /health of the secure server; endpoint names the route
\* that wrote the body
SecureHealth(cfg) ==
    [endpoint |-> "/health", statusCode |-> 200,
     security |-> [readOnly          |-> cfg.readOnly,
                   allowedProjects   |-> IF Len(cfg.allowedProjects) > 0
                                         THEN Some(Len(cfg.allowedProjects))
                                         ELSE Some(All),
                   allowedSchemas    |-> cfg.allowedSchemas,
                   blockedOperations |-> cfg.blockedOperations]]

\* the body of GET /security of the secure server
SecureSecurity(cfg) ==
    [endpoint |-> "/security", statusCode |-> 200,
     readOnly          |-> cfg.readOnly,
     allowedProjects   |-> cfg.allowedProjects,
     allowedSchemas    |-> cfg.allowedSchemas,
     allowedTables     |-> cfg.allowedTables,
     blockedOperations |-> cfg.blockedOperations]

\* the body of GET /health of part_002
P2Health(cfg) ==
    [endpoint |-> "/health", statusCode |-> 200,
     security |-> [readOnly        |-> cfg.readOnly,
                   allowedProjects |-> IF cfg.allowedProjects.some
                                       THEN Some(Len(cfg.allowedProjects.val))
                                       ELSE Some(All),
                   allowedSchemas  |-> IF cfg.allowedSchemas.some
                                       THEN Some(Len(cfg.allowedSchemas.val))
                                       ELSE Some(All),
                   allowedTables   |-> IF cfg.allowedTables.some
                                       THEN Some(Len(cfg.allowedTables.val))
                                       ELSE Some(All)]]

\* the secure handler at its first stop: when it calls executeTool it has
\* written the head and the start event and awaits the call (line 306);
\* otherwise it has run to its end
SecureAwaiting(h) ==
    IF h.forwarded # <<>>
    THEN Handled(h.config, <<Event("data", "start", NoError)>>, h.forwarded, h.guardEvals, 0)
    ELSE h

SecureBegan(cfg, e, req) == SecureAwaiting(SecureHandle(cfg, e, req))

\* the handler of part_002 at its first stop: when it calls a tool it has
\* written the head and the start event, the tool has run its checks and made
\* its first request to Supabase, if it makes one, and the handler awaits the
\* tool; otherwise it has run to its end
P2Awaiting(cfg, req, h) ==
    IF req.method # "" /\ P2AwaitsTool(cfg, req)
    THEN Handled(h.config, <<Event("data", "start", NoError)>>,
                 IF h.forwarded # <<>> THEN <<Pending(h.forwarded[1])>> ELSE <<>>,
                 h.guardEvals, 0)
    ELSE h

P2Began(cfg, req) == P2Awaiting(cfg, req, P2Handle(cfg, req, "ok", "ok"))

\* the status and body the error-handling middleware writes
InternalServerError ==
    [endpoint |-> "error", statusCode |-> 500, error |-> "Internal server error"]


RequestsOf(v) == IF v = "secure" THEN SecureRequests ELSE P2Requests

\* a second POST /mcp handler, with a response of its own, that holds no
\* request
SecondIdle == [pc |-> "idle", req |-> IdleRequest, events |-> <<>>, forwarded |-> <<>>,
               ended |-> 0, status |-> 0]

\* the requests of the second handler: a call of execute_sql that is awaited,
\* a listing, and a request that carries no credentials
SecondRequests(v) ==
    { [req EXCEPT !.id = Some(<<"8">>), !.now = <<"3">>] :
        req \in IF v = "secure"
                THEN { Request("tools/call", Some(<<"t", "o", "k">>), Some(P1), None,
                               Some(Params(Some(execute_sql),
                                           Some(Args(Some(<<"S", "e", "l", "e", "c", "t", " ", "a", " ", "F", "r", "o", "m", " ", "t">>), None, None, None)), None))),
                       Request("tools/list", Some(<<"t", "o", "k">>), Some(P1), None, None),
                       Request("tools/list", None, None, None, None) }
                ELSE { Request("tools/call", None, None, Some(<<"e", "y", "J", "x">>),
                               Some(Params(Some(execute_sql),
                                           Some(Args(Some(<<"S", "e", "l", "e", "c", "t", " ", "a", " ", "F", "r", "o", "m", " ", "t">>), Some(P1), None, None)), None))),
                       Request("tools/list", None, None, Some(<<"e", "y", "J", "x">>), None),
                       Request("tools/list", None, None, None, None) } }

SupabaseOutcomes == {"ok", "fail"}

(***************************************************************************)
(* The pipeline specification.                                             *)
(***************************************************************************)
Init ==
    /\ variant \in Variants
    /\ env \in PipelineEnvs
    /\ securityConfig = ConfigOf(variant, env)
    /\ pc = "idle"
    /\ request = IdleRequest
    /\ events = <<>>
    /\ forwarded = <<>>
    /\ guardEvals = 0
    /\ ended = 0
    /\ query = <<>>
    /\ guardOut = NoOutcome
    /\ policyOut = NoCheck
    /\ inflight = SecondIdle
    /\ status = 0
    /\ json = None
    /\ supabaseMcpServer = None
    /\ initRuns = 0

\* a POST /mcp request arrives
Receive ==
    /\ pc = "idle"
    /\ \E req \in RequestsOf(variant), arrival \in Arrivals :
          request' = [req EXCEPT !.id = arrival[1], !.now = arrival[2]]
    /\ pc' = "received"
    /\ UNCHANGED <<status, json, supabaseMcpServer, initRuns, inflight, variant, env, securityConfig, events, forwarded, guardEvals,
                   ended, query, guardOut, policyOut>>

\* the secure server handles the request up to its await of executeTool, or
\* to the end when it does not call executeTool
McpSecure ==
    /\ pc = "received"
    /\ variant = "secure"
    /\ \E h \in {SecureBegan(securityConfig, env, request)} :
          /\ events' = Stamped(SecureRequestId(request), h.events)
          /\ forwarded' = h.forwarded
          /\ guardEvals' = h.guardEvals
          /\ ended' = h.ended
          /\ status' = h.status
          /\ securityConfig' = h.config
          /\ pc' = IF h.ended = 0 THEN "awaiting" ELSE "done"
    /\ UNCHANGED <<json, supabaseMcpServer, initRuns, inflight, variant, env,
                   request, query, guardOut, policyOut>>

\* executeTool has returned: the handler writes the result and the
\* completion event and ends the response
SecureResume ==
    /\ pc = "awaiting"
    /\ variant = "secure"
    /\ \E h \in {SecureHandle(securityConfig, env, request)} :
          /\ events' = Stamped(SecureRequestId(request), h.events)
          /\ ended' = h.ended
          /\ securityConfig' = h.config
    /\ pc' = "done"
    /\ UNCHANGED <<status, forwarded, guardEvals, json, supabaseMcpServer, initRuns,
                   inflight, variant, env, request, query, guardOut, policyOut>>

\* part_002 handles the request up to its await of the tool, or to the end
\* when it does not call a tool
McpP2 ==
    /\ pc = "received"
    /\ variant = "part002"
    /\ \E h \in {P2Began(securityConfig, request)} :
          /\ events' = Stamped(P2RequestId(request), h.events)
          /\ forwarded' = h.forwarded
          /\ guardEvals' = h.guardEvals
          /\ ended' = h.ended
          /\ status' = h.status
          /\ securityConfig' = h.config
          /\ pc' = IF h.ended = 0 THEN "awaiting" ELSE "done"
    /\ UNCHANGED <<json, supabaseMcpServer, initRuns, inflight, variant, env,
                   request, query, guardOut, policyOut>>

\* the awaited tool goes on: Supabase answers the pending request, or the
\* tool settles without one.  After a failed primary request of execute_sql
\* the fall-back request is made and awaited; otherwise the handler writes
\* the result and the completion event, or the error event, and ends the
\* response
P2Settle ==
    /\ pc = "awaiting"
    /\ variant = "part002"
    /\ \E answer \in SupabaseAnswers :
         \E h \in {P2Handle(securityConfig, request,
                            IF Len(forwarded) = 2 THEN "fail" ELSE answer, answer)} :
             /\ securityConfig' = h.config
             /\ IF Len(forwarded) = 1 /\ answer = "fail" /\ Len(h.forwarded) = 2
                THEN /\ forwarded' = <<h.forwarded[1], Pending(h.forwarded[2])>>
                     /\ UNCHANGED <<events, ended, pc>>
                ELSE /\ events' = Stamped(P2RequestId(request), h.events)
                     /\ forwarded' = h.forwarded
                     /\ ended' = h.ended
                     /\ pc' = "done"
    /\ UNCHANGED <<status, guardEvals, json, supabaseMcpServer, initRuns, inflight,
                   variant, env, request, query, guardOut, policyOut>>

\* the error-handling middleware of the secure server answers a request
\* whose handling failed outside the /mcp handler, such as a body that is not
\* JSON
Unhandled ==
    /\ pc \in {"idle", "awaiting", "done"}
    /\ variant = "secure"
    /\ json' = Some(InternalServerError)
    /\ UNCHANGED <<status, supabaseMcpServer, initRuns, inflight, variant, env,
                   securityConfig, pc, request, events, forwarded, guardEvals, ended,
                   query, guardOut, policyOut>>

\* while the first handler awaits, the secure server takes a second POST /mcp
\* request and handles it up to its await of executeTool, or to the end
SecondMcpSecure ==
    /\ pc = "awaiting"
    /\ variant = "secure"
    /\ inflight.pc = "idle"
    /\ \E req \in SecondRequests(variant) :
          \E h \in {SecureBegan(securityConfig, env, req)} :
             /\ securityConfig' = h.config
             /\ inflight' = [pc |-> IF h.ended = 0 THEN "awaiting" ELSE "done",
                             req |-> req,
                             events |-> Stamped(SecureRequestId(req), h.events),
                             forwarded |-> h.forwarded, ended |-> h.ended,
                             status |-> h.status]
    /\ UNCHANGED <<status, json, supabaseMcpServer, initRuns, variant, env,
                   pc, request, events, forwarded, guardEvals, ended, query, guardOut,
                   policyOut>>

\* executeTool has returned to the second handler, before or after it
\* returns to the first
SecondSecureResume ==
    /\ variant = "secure"
    /\ inflight.pc = "awaiting"
    /\ \E h \in {SecureHandle(securityConfig, env, inflight.req)} :
          /\ securityConfig' = h.config
          /\ inflight' = [inflight EXCEPT
                             !.events = Stamped(SecureRequestId(inflight.req), h.events),
                             !.ended = h.ended, !.pc = "done"]
    /\ UNCHANGED <<status, json, supabaseMcpServer, initRuns, variant, env,
                   pc, request, events, forwarded, guardEvals, ended, query, guardOut,
                   policyOut>>

\* while the first handler awaits its tool, part_002 takes a second POST /mcp
\* request and handles it up to its await of the tool, or to the end
SecondMcpP2 ==
    /\ pc = "awaiting"
    /\ variant = "part002"
    /\ inflight.pc = "idle"
    /\ \E req \in SecondRequests(variant) :
          \E h \in {P2Began(securityConfig, req)} :
             /\ securityConfig' = h.config
             /\ inflight' = [pc |-> IF h.ended = 0 THEN "awaiting" ELSE "done",
                             req |-> req,
                             events |-> Stamped(P2RequestId(req), h.events),
                             forwarded |-> h.forwarded, ended |-> h.ended,
                             status |-> h.status]
    /\ UNCHANGED <<status, json, supabaseMcpServer, initRuns, variant, env,
                   pc, request, events, forwarded, guardEvals, ended, query, guardOut,
                   policyOut>>

\* the tool the second handler awaits goes on, as in P2Settle
SecondP2Settle ==
    /\ variant = "part002"
    /\ inflight.pc = "awaiting"
    /\ \E answer \in SupabaseAnswers :
         \E h \in {P2Handle(securityConfig, inflight.req,
                            IF Len(inflight.forwarded) = 2 THEN "fail" ELSE answer,
                            answer)} :
             /\ securityConfig' = h.config
             /\ inflight' =
                 IF Len(inflight.forwarded) = 1 /\ answer = "fail" /\ Len(h.forwarded) = 2
                 THEN [inflight EXCEPT
                          !.forwarded = <<h.forwarded[1], Pending(h.forwarded[2])>>]
                 ELSE [inflight EXCEPT
                          !.events = Stamped(P2RequestId(inflight.req), h.events),
                          !.forwarded = h.forwarded, !.ended = h.ended, !.pc = "done"]
    /\ UNCHANGED <<status, json, supabaseMcpServer, initRuns, variant, env,
                   pc, request, events, forwarded, guardEvals, ended, query, guardOut,
                   policyOut>>

\* the response of the second handler has ended
SecondClose ==
    /\ inflight.pc = "done"
    /\ inflight' = SecondIdle
    /\ UNCHANGED <<status, json, supabaseMcpServer, initRuns, variant, env, securityConfig,
                   pc, request, events, forwarded, guardEvals, ended, query, guardOut,
                   policyOut>>

\* the response has ended: nothing of the request outlives it
Close ==
    /\ pc = "done"
    /\ inflight = SecondIdle
    /\ pc' = "idle"
    /\ request' = IdleRequest
    /\ events' = <<>>
    /\ forwarded' = <<>>
    /\ guardEvals' = 0
    /\ ended' = 0
    /\ status' = 0
    /\ json' = None
    /\ UNCHANGED <<supabaseMcpServer, initRuns, inflight, variant, env, securityConfig, query, guardOut, policyOut>>

\* GET /health is answered while no POST /mcp handler runs: between two
\* handlers or while the handler awaits
Health ==
    /\ pc \in {"idle", "awaiting", "done"}
    /\ json' = Some(IF variant = "secure" THEN SecureHealth(securityConfig)
                    ELSE P2Health(securityConfig))
    /\ UNCHANGED <<status, supabaseMcpServer, initRuns, inflight, variant, env,
                   securityConfig, pc, request, events, forwarded, guardEvals, ended,
                   query, guardOut, policyOut>>

\* GET /security of the secure server is answered while no POST /mcp
\* handler runs
Security ==
    /\ pc \in {"idle", "awaiting", "done"}
    /\ variant = "secure"
    /\ json' = Some(SecureSecurity(securityConfig))
    /\ UNCHANGED <<status, supabaseMcpServer, initRuns, inflight, variant, env,
                   securityConfig, pc, request, events, forwarded, guardEvals, ended,
                   query, guardOut, policyOut>>

Next ==
    \/ Receive
    \/ McpSecure
    \/ SecureResume
    \/ McpP2
    \/ P2Settle
    \/ Health
    \/ Security
    \/ Unhandled
    \/ Close

Spec == Init /\ [][Next]_vars

(***************************************************************************)
(* The pipeline with a second handler: while one POST /mcp handler awaits, *)
(* the server takes and handles another request.                           *)
(***************************************************************************)
ConcurrentEnvs ==
    { EnvOf(ro, p, None, None, b) :
        ro \in {None, Some(EnvTrue)},
        p \in {None, Some(P1 \o Comma \o P2)},
        b \in {None, Some(describe_table \o Comma \o apply_migration)} }

InitConcurrent ==
    /\ variant \in Variants
    /\ env \in ConcurrentEnvs
    /\ securityConfig = ConfigOf(variant, env)
    /\ pc = "idle"
    /\ request = IdleRequest
    /\ events = <<>>
    /\ forwarded = <<>>
    /\ guardEvals = 0
    /\ ended = 0
    /\ query = <<>>
    /\ guardOut = NoOutcome
    /\ policyOut = NoCheck
    /\ inflight = SecondIdle
    /\ status = 0
    /\ json = None
    /\ supabaseMcpServer = None
    /\ initRuns = 0

NextConcurrent ==
    \/ Next
    \/ SecondMcpSecure
    \/ SecondSecureResume
    \/ SecondMcpP2
    \/ SecondP2Settle
    \/ SecondClose

SpecConcurrent == InitConcurrent /\ [][NextConcurrent]_vars

(***************************************************************************)
(* What the properties below read of a handled request.                    *)
(***************************************************************************)
Done == pc = "done"

IsToolsCall == request.method = "tools/call"

\* params.name and params.arguments of the request (None when missing)
CallName == IF request.params.some THEN request.params.val.name ELSE None
CallArgs == IF request.params.some THEN request.params.val.arguments ELSE None
CallQuery == IF CallArgs.some THEN CallArgs.val.query ELSE None
CallProjectId == IF CallArgs.some THEN CallArgs.val.project_id ELSE None
CallSchemas == IF CallArgs.some THEN CallArgs.val.schemas ELSE None

\* the error reported to the client, NoError when the response has none
ReportedError ==
    IF events # <<>> /\ events[Len(events)].type = "error"
    THEN events[Len(events)].error
    ELSE NoError

GateChecks ==
    {"validateProjectAccess", "validateReadOnlyOperation", "validateBlockedOperation",
     "validateSchemaAccess", "sanitizeSqlQuery"}

\* the request passed what each handler asks before its first gatekeeping
\* check: the credentials, the method, the tool name
SecurePreliminariesPass ==
    /\ Truthy(request.token)
    /\ Truthy(request.projectRef)
    /\ IsToolsCall
    /\ Truthy(CallName)

P2PreliminariesPass ==
    /\ IsToolsCall
    /\ Truthy(request.apiKey)
    /\ request.params.some
    /\ Truthy(CallName)

\* the project the call is made for: the x-project-ref header in the secure
\* server, the project_id argument in part_002
SecureProjectDenied ==
    SecureValidateProjectAccess(securityConfig, request.projectRef.val) # NoError

P2ProjectRefused == ~P2ValidateProjectAccess(securityConfig, CallProjectId)

(***************************************************************************)
(* C1.  The forwarding step (executeTool, makeSupabaseRequest) runs only   *)
(* for a tools/call that none of validateProjectAccess,                    *)
(* validateReadOnlyOperation, validateBlockedOperation,                    *)
(* validateSchemaAccess and sanitizeSqlQuery denies, and a response that   *)
(* reports a denial of one of them has forwarded nothing.                  *)
(***************************************************************************)
C1_ForwardedOnlyIfNoCheckDenied ==
    /\ (Done /\ variant = "secure" /\ forwarded # <<>>) =>
         /\ SecurePreliminariesPass
         /\ ~SecureProjectDenied
         /\ SecureValidateReadOnlyOperation(securityConfig, CallName.val) = NoError
         /\ SecureValidateBlockedOperation(securityConfig, CallName.val) = NoError
         /\ (CallName.val = list_tables /\ CallSchemas.some) =>
               SecureValidateSchemaAccess(securityConfig, CallSchemas.val) = NoError
         /\ (CallName.val = execute_sql /\ Truthy(CallQuery)) =>
               SecureSanitizeSqlQuery(securityConfig, CallQuery.val).ok
    /\ (Done /\ variant = "part002" /\ forwarded # <<>>) =>
         /\ P2PreliminariesPass
         /\ ~P2ProjectRefused
         /\ P2ValidateReadOnlyOperation(securityConfig, CallName.val)
         /\ P2ValidateBlockedOperation(securityConfig, CallName.val)
         /\ CallName.val = execute_sql =>
               (CallQuery.some /\ P2SanitizeSqlQuery(securityConfig, CallQuery.val).ok)
    /\ (Done /\ ReportedError.check \in GateChecks) => forwarded = <<>>

\* a guarded execute_sql call was forwarded under a restrictive configuration
C1_Witness ==
    /\ Done
    /\ variant = "secure"
    /\ forwarded # <<>>
    /\ CallName = Some(execute_sql)
    /\ guardEvals = 1
    /\ securityConfig.readOnly
    /\ Len(securityConfig.allowedProjects) > 1
    /\ Len(securityConfig.blockedOperations) > 0

(***************************************************************************)
(* C2.  With readOnly = true, a tools/call naming any operation of the     *)
(* fixed write-operation set (fourteen names) is denied with the read-only *)
(* violation and is not forwarded, in the secure server and in part_002.   *)
(***************************************************************************)
FixedWriteOperations ==
    { apply_migration, execute_sql_insert, execute_sql_update, execute_sql_delete,
      deploy_edge_function, create_project, pause_project, restore_project,
      create_branch, delete_branch, merge_branch, reset_branch, rebase_branch,
      update_storage_config }

\* the call reaches the operation-name checks of the running variant
ReachesOperationChecks ==
    IF variant = "secure"
    THEN SecurePreliminariesPass /\ ~SecureProjectDenied
    ELSE P2PreliminariesPass

C2_ReadOnlyDeniesWriteSet ==
    (/\ Done
     /\ securityConfig.readOnly
     /\ ReachesOperationChecks
     /\ CallName.val \in FixedWriteOperations)
    => (ReportedError.kind = "ReadOnlyViolation" /\ forwarded = <<>>)

(***************************************************************************)
(* C8.  A tools/call that reaches the operation-name checks and names a    *)
(* member of blockedOperations is denied and not forwarded for every value *)
(* of readOnly; the reason is the explicitly-blocked one, except when      *)
(* readOnly = true and the operation is in the variant's write-operation   *)
(* list: the read-only check runs first and reports the read-only          *)
(* violation.                                                              *)
(***************************************************************************)
NamesBlockedOperation ==
    /\ Done
    /\ ReachesOperationChecks
    /\ arrayIncludes(securityConfig.blockedOperations, CallName.val)

WriteOperationsOf(v) == IF v = "secure" THEN SecureWriteOperations ELSE P2WriteOperations

C8_BlockedDeniedReadOnlyFirst ==
    NamesBlockedOperation =>
        /\ forwarded = <<>>
        /\ ReportedError.kind =
              IF securityConfig.readOnly
                 /\ arrayIncludes(WriteOperationsOf(variant), CallName.val)
              THEN "ReadOnlyViolation"
              ELSE "ExplicitlyBlocked"

\* C8 as first stated: the reason is the explicitly-blocked one in every case
C8_BlockedReasonAlways ==
    NamesBlockedOperation => ReportedError.kind = "ExplicitlyBlocked"

\* a blocked operation that is no write operation is refused in read-only
\* mode with the explicitly-blocked reason
C8_Witness ==
    /\ NamesBlockedOperation
    /\ securityConfig.readOnly
    /\ CallName.val = describe_table
    /\ ReportedError.kind = "ExplicitlyBlocked"
    /\ ReportedError.check = "validateBlockedOperation"

(***************************************************************************)
(* C9.  The project-access check comes before the operation-name checks:   *)
(* a tools/call whose project is not allowed and whose operation name is   *)
(* also denied is answered with the project denial.                        *)
(***************************************************************************)
\* the operation name is refused by the read-only or the blocked-list check
OperationNameDenied ==
    IF variant = "secure"
    THEN \/ SecureValidateReadOnlyOperation(securityConfig, CallName.val) # NoError
         \/ SecureValidateBlockedOperation(securityConfig, CallName.val) # NoError
    ELSE \/ ~P2ValidateReadOnlyOperation(securityConfig, CallName.val)
         \/ ~P2ValidateBlockedOperation(securityConfig, CallName.val)

ProjectNotAllowed == IF variant = "secure" THEN SecureProjectDenied ELSE P2ProjectRefused

C9_ProjectDenialReportedFirst ==
    (/\ Done
     /\ IF variant = "secure" THEN SecurePreliminariesPass
                               ELSE P2PreliminariesPass /\ Truthy(CallProjectId)
     /\ ProjectNotAllowed
     /\ OperationNameDenied)
    => ReportedError.kind = "ProjectNotAllowed"

(***************************************************************************)
(* C10.  An execute_sql tools/call whose project is not in the non-empty   *)
(* allow-list never evaluates sanitizeSqlQuery: the number of guard        *)
(* evaluations for the request is zero.                                    *)
(***************************************************************************)
C10_ProjectDenialSkipsGuard ==
    (/\ Done
     /\ IsToolsCall
     /\ CallName = Some(execute_sql)
     /\ IF variant = "secure" THEN Truthy(request.projectRef) ELSE TRUE
     /\ ProjectNotAllowed)
    => (guardEvals = 0 /\ forwarded = <<>>)

\* part_002 refused the project of an execute_sql call that carried a valid
\* key and a query, and never ran the guard
C10_Witness ==
    /\ Done
    /\ variant = "part002"
    /\ CallName = Some(execute_sql)
    /\ Truthy(CallQuery)
    /\ P2ValidateApiKey(request.apiKey) = NoError
    /\ ReportedError.kind = "ProjectNotAllowed"
    /\ guardEvals = 0

(***************************************************************************)
(* What the guard properties read: the query as the guard of part_002      *)
(* normalizes it, and the deny-list and prefixes of the specification      *)
(* (those of part_002).                                                    *)
(***************************************************************************)
Guarded == guardEvals = 1 /\ pc = "idle"

Normalized == trim(toUpperCase(query))

ContainsDenyPattern ==
    \E i \in 1..Len(P2DangerousPatterns) : includes(Normalized, P2DangerousPatterns[i])

ContainsInsert == includes(Normalized, INSERT_INTO)

StartsWithAllowedPrefix ==
    \E i \in 1..Len(P2AllowedPatterns) : startsWith(Normalized, P2AllowedPatterns[i])

(***************************************************************************)
(* C3.  sanitizeSqlQuery rejects, whatever readOnly is, every query whose  *)
(* uppercased text contains one of the ten deny-list patterns; in both     *)
(* implementations of the guard.                                           *)
(***************************************************************************)
C3_DenyListAlwaysRejects ==
    (/\ Guarded
     /\ \E i \in 1..Len(P2DangerousPatterns) :
           includes(toUpperCase(query), P2DangerousPatterns[i]))
    => ~guardOut.ok

(***************************************************************************)
(* C4.  sanitizeSqlQuery accepts a query only if its uppercased, trimmed   *)
(* text starts with SELECT , INSERT INTO, WITH , EXPLAIN  or DESCRIBE ; in *)
(* both implementations of the guard.                                      *)
(***************************************************************************)
C4_AcceptedOnlyWithAllowedPrefix ==
    (Guarded /\ guardOut.ok) => StartsWithAllowedPrefix

(***************************************************************************)
(* C5.  The read-only INSERT rule comes after the deny-list: in read-only  *)
(* mode a query with INSERT INTO and no deny-list pattern is rejected as   *)
(* an INSERT in read-only mode; a query with INSERT INTO and a deny-list   *)
(* pattern is rejected for the deny-list; outside read-only mode a query   *)
(* that starts with INSERT INTO and has no deny-list pattern is accepted.  *)
(***************************************************************************)
C5_InsertRuleAfterDenyList ==
    /\ (Guarded /\ securityConfig.readOnly /\ ContainsInsert /\ ~ContainsDenyPattern)
         => (~guardOut.ok /\ guardOut.error.kind = "InsertInReadOnly")
    /\ (Guarded /\ ContainsInsert /\ ContainsDenyPattern)
         => (~guardOut.ok /\ guardOut.error.kind = "Dangerous")
    /\ (Guarded /\ ~securityConfig.readOnly /\ startsWith(Normalized, INSERT_INTO)
          /\ ~ContainsDenyPattern)
         => guardOut.ok

(***************************************************************************)
(* C6.  An allow-list that is unset or set to the empty string accepts     *)
(* every project, schema and table reference, in the configuration each    *)
(* variant loads.                                                          *)
(***************************************************************************)
UnsetOrEmpty(v) == v = None \/ v = Some(<<>>)

C6_EmptyAllowListAcceptsAll ==
    policyOut.done =>
        /\ UnsetOrEmpty(env.SUPABASE_ALLOWED_PROJECTS) => policyOut.projectOk
        /\ UnsetOrEmpty(env.SUPABASE_ALLOWED_SCHEMAS) => policyOut.schemasOk
        /\ UnsetOrEmpty(env.SUPABASE_ALLOWED_TABLES) => policyOut.tablesOk

(***************************************************************************)
(* C7.  For a non-empty allowedProjects list, validateProjectAccess        *)
(* accepts a project reference exactly when it is a member of the list,    *)
(* character for character: a case variant, a substring or a superstring   *)
(* of a member is refused.                                                 *)
(***************************************************************************)
\* the allowedProjects list of the loaded configuration (empty when null)
AllowedProjectList ==
    IF variant = "secure" THEN securityConfig.allowedProjects
    ELSE securityConfig.allowedProjects.val

IsMember(list, x) == \E i \in 1..Len(list) : list[i] = x

\* x is not a member but is a case variant, a prefix or an extension of one
NearMember(list, x) ==
    /\ ~IsMember(list, x)
    /\ \E i \in 1..Len(list) :
          \/ toUpperCase(list[i]) = toUpperCase(x)
          \/ (x # <<>> /\ includes(list[i], x))
          \/ (list[i] # <<>> /\ includes(x, list[i]))

C7_ExactMembership ==
    (policyOut.done /\ AllowedProjectList # <<>>) =>
        /\ policyOut.projectOk <=> IsMember(AllowedProjectList, policyOut.projectRef)
        /\ NearMember(AllowedProjectList, policyOut.projectRef) => ~policyOut.projectOk

\* a case variant of a member was refused
C7_Witness ==
    /\ policyOut.done
    /\ Len(AllowedProjectList) = 2
    /\ ~IsMember(AllowedProjectList, policyOut.projectRef)
    /\ IsMember(AllowedProjectList, [i \in 1..Len(policyOut.projectRef) |->
                   IF policyOut.projectRef[i] = "P" THEN "p" ELSE policyOut.projectRef[i]])
    /\ ~policyOut.projectOk

(***************************************************************************)
(* C11.  With a non-empty allowedTables, a tools/call of describe_table    *)
(* that reaches the operation-name checks of the secure server and whose   *)
(* table_name argument is not in allowedTables is denied and not           *)
(* forwarded, and when the read-only and blocked-operation checks pass the *)
(* denial is the table one and names the offending table.                  *)
(***************************************************************************)
CallTableName == IF CallArgs.some THEN CallArgs.val.table_name ELSE None

C11_TableOutsideAllowListDenied ==
    (/\ Done
     /\ variant = "secure"
     /\ ReachesOperationChecks
     /\ CallName.val = describe_table
     /\ Len(securityConfig.allowedTables) > 0
     /\ CallTableName.some
     /\ ~arrayIncludes(securityConfig.allowedTables, CallTableName.val))
    => /\ forwarded = <<>>
       /\ ReportedError # NoError
       /\ (/\ SecureValidateReadOnlyOperation(securityConfig, describe_table) = NoError
           /\ SecureValidateBlockedOperation(securityConfig, describe_table) = NoError)
          => ReportedError = SecureValidateTableAccess(securityConfig, <<CallTableName.val>>)

(***************************************************************************)
(* C12.  validateSchemaAccess of the secure server, with a non-empty       *)
(* allowedSchemas, denies a list of schemas exactly when one of them is    *)
(* not a member, and the denial lists, in order, every schema of the input *)
(* that is not a member and no member; with an empty allowedSchemas it     *)
(* accepts every list.                                                     *)
(***************************************************************************)
IsAllowedSchema(schema) == IsMember(securityConfig.allowedSchemas, schema)

IsRefusedSchema(schema) == ~IsAllowedSchema(schema)

C12_SchemaDenialListsOffenders ==
    (policyOut.done /\ variant = "secure") =>
        /\ Len(securityConfig.allowedSchemas) > 0 =>
              /\ ~policyOut.schemasOk <=>
                    \E i \in 1..Len(policyOut.schemas) : IsRefusedSchema(policyOut.schemas[i])
              /\ policyOut.invalid = SelectSeq(policyOut.schemas, IsRefusedSchema)
        /\ \A l \in SchemaLists :
              SecureValidateSchemaAccess([securityConfig EXCEPT !.allowedSchemas = <<>>], l)
                 = NoError

\* a list with a member and a non-member was denied for the non-member only
C12_Witness ==
    /\ policyOut.done
    /\ variant = "secure"
    /\ securityConfig.allowedSchemas = <<public>>
    /\ policyOut.schemas = <<private, public>>
    /\ ~policyOut.schemasOk
    /\ policyOut.invalid = <<private>>

(***************************************************************************)
(* C13.  When a query contains several deny-list patterns, sanitizeSqlQuery *)
(* rejects it and its reason names exactly one pattern: the first, in      *)
(* deny-list order, that the query contains, wherever the patterns stand   *)
(* in the query.  The secure guard names a pattern by the source of its    *)
(* regular expression, the guard of part_002 by the pattern itself.        *)
(***************************************************************************)
\* the positions in the deny-list of the patterns the query contains
DenyHits ==
    {i \in 1..Len(P2DangerousPatterns) : includes(Normalized, P2DangerousPatterns[i])}

FirstDenyHit == CHOOSE i \in DenyHits : \A j \in DenyHits : i <= j

\* the pattern as the reason of the running variant names it; the secure
\* guard has no name for the ninth and tenth pattern
DenyPatternName(i) ==
    IF variant = "part002" THEN P2DangerousPatterns[i]
    ELSE IF i <= Len(SecureDangerousPatterns) THEN SecureDangerousPatterns[i].source
    ELSE <<>>

C13_FirstDenyPatternReported ==
    (Guarded /\ Cardinality(DenyHits) > 1) =>
        /\ ~guardOut.ok
        /\ guardOut.error.kind = "Dangerous"
        /\ guardOut.error.pattern = DenyPatternName(FirstDenyHit)

(***************************************************************************)
(* C13, each guard against its own list: a query that matches patterns of  *)
(* the deny-list of the running variant is rejected with the first of them *)
(* in the order of that list.                                              *)
(***************************************************************************)
OwnDenyHits ==
    IF variant = "secure"
    THEN {i \in 1..Len(SecureDangerousPatterns) :
             test(SecureDangerousPatterns[i].atoms, query)}
    ELSE DenyHits

C13_FirstOfOwnListReported ==
    (Guarded /\ OwnDenyHits # {}) =>
        /\ ~guardOut.ok
        /\ guardOut.error.kind = "Dangerous"
        /\ guardOut.error.pattern =
              DenyPatternName(CHOOSE i \in OwnDenyHits : \A j \in OwnDenyHits : i <= j)

(***************************************************************************)
(* C14.  When sanitizeSqlQuery accepts the query of an execute_sql call,   *)
(* the query that is forwarded is the text the client sent, character for  *)
(* character: its case and the white space around it are kept, the         *)
(* uppercased and trimmed form serves the matching only.                   *)
(***************************************************************************)
\* the query a forwarded call carries
ForwardedQuery(call) ==
    IF call.target = "executeTool" THEN call.arguments.val.query ELSE call.data

C14_AcceptedQueryForwardedUnchanged ==
    (/\ Done
     /\ IsToolsCall
     /\ CallName = Some(execute_sql)
     /\ guardEvals = 1
     /\ forwarded # <<>>) =>
        /\ \A i \in 1..Len(forwarded) : ForwardedQuery(forwarded[i]) = CallQuery
        /\ SanitizeOf(variant, securityConfig, CallQuery.val) = Returned(CallQuery.val)

\* part_002 forwarded a query in mixed case with white space around it
C14_Witness ==
    /\ Done
    /\ variant = "part002"
    /\ CallName = Some(execute_sql)
    /\ CallQuery = Some(PaddedQuery)
    /\ Len(forwarded) = 2
    /\ forwarded[2].data = Some(PaddedQuery)

(***************************************************************************)
(* The header-credential server, src/index-production.js (lines 1-363).    *)
(* Each POST /mcp request runs its own handler; the handlers interleave at *)
(* their await points: the creation of the server instance and the fetch   *)
(* to the Management API.                                                  *)
(***************************************************************************)
DefaultProject == <<"d", "e", "f", "a", "u", "l", "t", "-", "p", "r", "o", "j", "e", "c", "t">>

PatA == <<"p", "a", "t", "_", "a">>
PatB == <<"p", "a", "t", "_", "b">>

\* new CustomSupabaseMcpServer(accessToken, projectRef)
CustomSupabaseMcpServer(accessToken, projectRef) ==
    [accessToken |-> accessToken, projectRef |-> projectRef]

\* fetch(`${managementApiUrl}/projects/${this.projectRef}/database/query`)
\* with Authorization: Bearer ${this.accessToken} and the body {query}
ManagementApiCall(server, tool, q) ==
    [target |-> "fetch", tool |-> tool, projectRef |-> server.projectRef,
     accessToken |-> server.accessToken, query |-> q]

ListTablesQuery ==
    <<"S", "E", "L", "E", "C", "T", " ", "t", "a", "b", "l", "e", "_", "n", "a", "m", "e", " ", "F", "R", "O", "M", " ", "i", "n", "f", "o", "r", "m", "a", "t", "i", "o", "n", "_", "s", "c", "h", "e", "m", "a", ".", "t", "a", "b", "l", "e", "s", " ", "W", "H", "E", "R", "E", " ", "t", "a", "b", "l", "e", "_", "s", "c", "h", "e", "m", "a", " ", "=", " ", "'", "p", "u", "b", "l", "i", "c", "'", " ", "O", "R", "D", "E", "R", " ", "B", "Y", " ", "t", "a", "b", "l", "e", "_", "n", "a", "m", "e", ";">>

DescribeTableQuery(tableName) ==
    <<"S", "E", "L", "E", "C", "T", " ", "c", "o", "l", "u", "m", "n", "_", "n", "a", "m", "e", ",", " ", "d", "a", "t", "a", "_", "t", "y", "p", "e", ",", " ", "i", "s", "_", "n", "u", "l", "l", "a", "b", "l", "e", ",", " ", "c", "o", "l", "u", "m", "n", "_", "d", "e", "f", "a", "u", "l", "t", " ", "\n", " ", " ", " ", " ", " ", " ", " ", " ", " ", " ", " ", " ", " ", " ", " ", " ", " ", " ", " ", " ", " ", "F", "R", "O", "M", " ", "i", "n", "f", "o", "r", "m", "a", "t", "i", "o", "n", "_", "s", "c", "h", "e", "m", "a", ".", "c", "o", "l", "u", "m", "n", "s", " ", "\n", " ", " ", " ", " ", " ", " ", " ", " ", " ", " ", " ", " ", " ", " ", " ", " ", " ", " ", " ", " ", " ", "W", "H", "E", "R", "E", " ", "t", "a", "b", "l", "e", "_", "n", "a", "m", "e", " ", "=", " ", "'">>
    \o tableName
    \o <<"'", " ", "A", "N", "D", " ", "t", "a", "b", "l", "e", "_", "s", "c", "h", "e", "m", "a", " ", "=", " ", "'", "p", "u", "b", "l", "i", "c", "'", " ", "\n", " ", " ", " ", " ", " ", " ", " ", " ", " ", " ", " ", " ", " ", " ", " ", " ", " ", " ", " ", " ", " ", "O", "R", "D", "E", "R", " ", "B", "Y", " ", "o", "r", "d", "i", "n", "a", "l", "_", "p", "o", "s", "i", "t", "i", "o", "n", ";">>

\* req.headers['x-project-ref'] || process.env.SUPABASE_PROJECT_REF || 'default-project'
ProdProjectRef(e, req) ==
    IF Truthy(req.projectRef) THEN req.projectRef.val
    ELSE IF Truthy(e.SUPABASE_PROJECT_REF) THEN e.SUPABASE_PROJECT_REF.val
    ELSE DefaultProject

\* the handler has sent its response and returned: its server instance is
\* out of scope
Responded(h, error, result) ==
    [h EXCEPT !.pc = "responded", !.server = None, !.response = error, !.result = result]

\* the handler up to its first await: the header and method checks and
\* initializeSupabaseMcpServer(accessToken, projectRef)
ProdValidated(e, h) ==
    LET projectRef == ProdProjectRef(e, h.req)
        accessToken == h.req.apiKey
    IN  IF ~Truthy(accessToken)
        THEN Responded(h, Plain("KeyRequired",
                 "x-supabase-key header is required (Supabase Personal Access Token)"), "")
        ELSE IF projectRef = <<>>
        THEN Responded(h, Plain("ProjectRefRequired", "x-project-ref header is required"), "")
        ELSE IF h.req.method = ""
        THEN Responded(h, Plain("MethodRequired", "MCP method is required"), "")
        ELSE [h EXCEPT !.pc = "initialized",
                       !.server = Some(CustomSupabaseMcpServer(accessToken.val, projectRef))]

\* ServerOf with one server instance for the whole process: a handler calls
\* the instance created last, here that of the highest client that has one
SharedServer(c) ==
    LET holders == {d \in Clients : inflight[d].server.some}
    IN  inflight[CHOOSE d \in holders : \A e \in holders : e <= d].server.val

\* the server instance a handler calls: the one it created
ServerOf(c) == inflight[c].server.val

\* the handler from the method dispatch to its next await: a response, or a
\* fetch to the Management API made with the credentials of its server
ProdDispatched(c) ==
    LET h == inflight[c]
        params == h.req.params
        Fetching(tool, q) ==
            [h EXCEPT !.pc = "fetching",
                      !.forwarded = Append(@, ManagementApiCall(ServerOf(c), tool, q))]
    IN  IF h.req.method \in {"initialize", "tools/list"} THEN Responded(h, NoError, "result")
        ELSE IF h.req.method # "tools/call"
        THEN Responded(h, Plain("UnknownMethod", "Unknown MCP method: ${method}"), "")
        ELSE IF ~params.some
        THEN Responded(h, Plain("TypeError", "Cannot destructure property 'name' of 'params'"), "")
        ELSE IF ~Truthy(params.val.name)
        THEN Responded(h, Plain("ToolNameRequired", "Tool name is required"), "")
        ELSE IF ~params.val.arguments.some
        THEN Responded(h, Plain("ToolArgumentsRequired", "Tool arguments are required"), "")
        ELSE IF params.val.name.val = execute_sql
        THEN Fetching(execute_sql, params.val.arguments.val.query)
        ELSE IF params.val.name.val = list_tables
        THEN Fetching(list_tables, Some(ListTablesQuery))
        ELSE IF params.val.name.val = describe_table
        THEN Fetching(describe_table,
                      Some(DescribeTableQuery(
                          IF params.val.arguments.val.table_name.some
                          THEN params.val.arguments.val.table_name.val
                          ELSE <<"u", "n", "d", "e", "f", "i", "n", "e", "d">>)))
        ELSE Responded(h, Plain("UnknownTool", "Unknown tool: ${name}"), "")

\* the handler after its fetch: the data of the Management API, or the
\* error of the tool
ProdFetched(h, outcome) ==
    LET tool == h.forwarded[Len(h.forwarded)].tool
    IN  IF outcome = "ok" THEN Responded(h, NoError, "result")
        ELSE IF tool = execute_sql
        THEN Responded(h, Plain("ToolFailed", "SQL execution failed: ${error.message}"), "")
        ELSE IF tool = list_tables
        THEN Responded(h, Plain("ToolFailed", "Failed to list tables: ${error.message}"), "")
        ELSE Responded(h, Plain("ToolFailed", "Failed to describe table: ${error.message}"), "")

(***************************************************************************)
(* The production specification: MaxClients clients post requests to       *)
(* index-production.js, whose handlers run concurrently.                   *)
(***************************************************************************)
ProdEnvs ==
    { [EnvOf(ro, None, None, None, None) EXCEPT !.SUPABASE_PROJECT_REF = ref] :
        ro \in {None, Some(EnvTrue)}, ref \in {None, Some(P2)} }

\* execute_sql calls: a read and three write statements, of two clients
\* with their own tokens and projects, with and without x-project-ref
ProdSqlRequests ==
    { Request("tools/call", None, cred[2], Some(cred[1]),
              Some(Params(Some(execute_sql), Some(Args(Some(cred[3]), None, None, None)), None))) :
        cred \in { <<PatA, Some(P1), <<"S", "e", "l", "e", "c", "t", " ", "a", " ", "F", "r", "o", "m", " ", "t">>>>,
                   <<PatB, Some(P3), <<"i", "n", "s", "e", "r", "t", " ", "i", "n", "t", "o", " ", "t">>>>,
                   <<PatB, None, <<"d", "r", "o", "p", " ", "t", "a", "b", "l", "e", " ", "t">>>>,
                   <<PatA, Some(P3), <<"u", "p", "d", "a", "t", "e", " ", "t", " ", "s", "e", "t", " ", "x">>>> } }

ProdRequests ==
    { Request("tools/list", None, Some(P1), None, None),
      Request("", None, Some(P1), Some(PatA), None),
      Request("tools/list", None, Some(P1), Some(PatA), None),
      Request("prompts/list", None, None, Some(PatB), None),
      Request("tools/call", None, Some(P1), Some(PatA), None),
      Request("tools/call", None, Some(P1), Some(PatA), Some(Params(None, None, None))),
      Request("tools/call", None, Some(P1), Some(PatA),
              Some(Params(Some(execute_sql), None, None))),
      Request("tools/call", None, Some(P3), Some(PatB),
              Some(Params(Some(get_project_url), Some(Args(None, None, None, None)), None))),
      Request("tools/call", None, None, Some(PatA),
              Some(Params(Some(list_tables), Some(Args(None, None, None, None)), None))),
      Request("tools/call", None, Some(P3), Some(PatB),
              Some(Params(Some(describe_table), Some(Args(None, None, None, Some(users))),
                          None))) }
    \cup ProdSqlRequests

\* the variables the production server does not have
pipelineVars == <<variant, env, securityConfig, pc, request, events, forwarded,
                  guardEvals, ended, query, guardOut, policyOut, status, json,
                  supabaseMcpServer, initRuns>>

InitProd ==
    /\ variant = "production"
    /\ env \in ProdEnvs
    /\ securityConfig = None
    /\ pc = "idle"
    /\ request = IdleRequest
    /\ events = <<>>
    /\ forwarded = <<>>
    /\ guardEvals = 0
    /\ ended = 0
    /\ query = <<>>
    /\ guardOut = NoOutcome
    /\ policyOut = NoCheck
    /\ inflight = NoRequests
    /\ status = 0
    /\ json = None
    /\ supabaseMcpServer = None
    /\ initRuns = 0

\* a POST /mcp request of client c arrives
ProdReceive(c) ==
    /\ inflight[c].pc = "idle"
    /\ \E req \in ProdRequests :
          inflight' = [inflight EXCEPT ![c] = [IdleHandler EXCEPT !.pc = "received", !.req = req]]
    /\ UNCHANGED pipelineVars

\* the handler of c checks the headers and the method and creates its server
ProdValidate(c) ==
    /\ inflight[c].pc = "received"
    /\ inflight' = [inflight EXCEPT ![c] = ProdValidated(env, inflight[c])]
    /\ UNCHANGED pipelineVars

\* the handler of c dispatches on the method
ProdDispatch(c) ==
    /\ inflight[c].pc = "initialized"
    /\ inflight' = [inflight EXCEPT ![c] = ProdDispatched(c)]
    /\ UNCHANGED pipelineVars

\* the fetch of c returns
ProdFetchReturns(c) ==
    /\ inflight[c].pc = "fetching"
    /\ \E outcome \in SupabaseOutcomes :
          inflight' = [inflight EXCEPT ![c] = ProdFetched(inflight[c], outcome)]
    /\ UNCHANGED pipelineVars

\* the client has its response: nothing of the request is kept
ProdFinish(c) ==
    /\ inflight[c].pc = "responded"
    /\ inflight' = [inflight EXCEPT ![c] = IdleHandler]
    /\ UNCHANGED pipelineVars

NextProd ==
    \E c \in Clients :
        \/ ProdReceive(c)
        \/ ProdValidate(c)
        \/ ProdDispatch(c)
        \/ ProdFetchReturns(c)
        \/ ProdFinish(c)

SpecProd == InitProd /\ [][NextProd]_vars

(***************************************************************************)
(* What the properties of the production server read.                      *)
(***************************************************************************)
\* the calls the handler of c has forwarded to the Management API
CallsOf(c) == {inflight[c].forwarded[i] : i \in 1..Len(inflight[c].forwarded)}

\* the statements the README counts as writes
WriteKeywords ==
    { <<"I", "N", "S", "E", "R", "T", " ", "I", "N", "T", "O">>, <<"U", "P", "D", "A", "T", "E", " ">>, <<"D", "E", "L", "E", "T", "E", " ", "F", "R", "O", "M">>, <<"D", "R", "O", "P", " ", "T", "A", "B", "L", "E">>, <<"C", "R", "E", "A", "T", "E", " ", "T", "A", "B", "L", "E">>,
      <<"A", "L", "T", "E", "R", " ", "T", "A", "B", "L", "E">> }

IsWriteStatement(q) == \E w \in WriteKeywords : includes(trim(toUpperCase(q)), w)

(***************************************************************************)
(* C15.  In index-production.js, when SUPABASE_READ_ONLY is 'true', no     *)
(* execute_sql call whose query is a write statement (INSERT INTO, UPDATE, *)
(* DELETE FROM, DROP, CREATE or ALTER TABLE) is forwarded to the           *)
(* Management API.                                                         *)
(***************************************************************************)
C15_ReadOnlyForwardsNoWrite ==
    env.SUPABASE_READ_ONLY = Some(EnvTrue) =>
        \A c \in Clients : \A call \in CallsOf(c) :
            (call.tool = execute_sql /\ call.query.some) => ~IsWriteStatement(call.query.val)

(***************************************************************************)
(* C18.  In index-production.js, under every interleaving of concurrent    *)
(* requests, every call forwarded to the Management API carries the access *)
(* token and the project reference of the request that caused it (the      *)
(* x-project-ref header, or without it the server's default), and no       *)
(* server instance and so no token is held before the headers of a request *)
(* are read or after its response is sent.                                 *)
(***************************************************************************)
C18_CredentialsStayWithTheirRequest ==
    \A c \in Clients :
        LET h == inflight[c]
        IN  /\ \A call \in CallsOf(c) :
                 /\ call.accessToken = h.req.apiKey.val
                 /\ call.projectRef = ProdProjectRef(env, h.req)
            /\ h.server.some =>
                 /\ h.pc \in {"initialized", "fetching"}
                 /\ h.server.val.accessToken = h.req.apiKey.val
                 /\ h.server.val.projectRef = ProdProjectRef(env, h.req)
            /\ h.pc \in {"idle", "received", "responded"} => h.server = None
            /\ h.pc = "idle" => h = IdleHandler

\* two requests with different tokens and projects have a fetch in flight
\* at the same time
C18_Witness ==
    \E c \in Clients, d \in Clients :
        /\ inflight[c].pc = "fetching"
        /\ inflight[d].pc = "fetching"
        /\ inflight[c].req.apiKey = Some(PatA)
        /\ inflight[d].req.apiKey = Some(PatB)
        /\ inflight[c].forwarded[1].accessToken = PatA
        /\ inflight[d].forwarded[1].accessToken = PatB
        /\ inflight[c].forwarded[1].projectRef # inflight[d].forwarded[1].projectRef

(***************************************************************************)
(* C19.  In index-production.js the x-project-ref header is required: a    *)
(* request that has an x-supabase-key header and no x-project-ref header   *)
(* is rejected with 'x-project-ref header is required' and nothing is      *)
(* forwarded for it.                                                       *)
(***************************************************************************)
C19_ProjectRefHeaderRequired ==
    \A c \in Clients :
        (/\ inflight[c].pc \in {"initialized", "fetching", "responded"}
         /\ Truthy(inflight[c].req.apiKey)
         /\ ~Truthy(inflight[c].req.projectRef))
        => /\ inflight[c].pc = "responded"
           /\ inflight[c].response.kind = "ProjectRefRequired"
           /\ inflight[c].forwarded = <<>>

(***************************************************************************)
(* C16.  When SUPABASE_ALLOWED_PROJECTS is non-empty, every POST /mcp      *)
(* request that carries its credential and a method and whose project      *)
(* reference is not in the list, a tools/list request included, is         *)
(* answered with the project access-denied error and receives no result,   *)
(* in the secure server and in part_002.                                   *)
(***************************************************************************)
\* the project reference a request carries: the x-project-ref header, and
\* in part_002 the project_id argument of a tool call before it
RequestProjectRef ==
    IF variant = "part002" /\ CallProjectId.some THEN CallProjectId ELSE request.projectRef

\* the credential each server asks of a request
CarriesCredential ==
    IF variant = "secure" THEN Truthy(request.token) ELSE Truthy(request.apiKey)

\* an event of the response that delivers a result
HasResult ==
    \E i \in 1..Len(events) :
        events[i].type \in {"", "data"} /\ events[i].data \notin {"", "start"}

OutsideAllowedProjects ==
    /\ Truthy(env.SUPABASE_ALLOWED_PROJECTS)
    /\ Truthy(RequestProjectRef)
    /\ ~IsMember(split(env.SUPABASE_ALLOWED_PROJECTS.val), RequestProjectRef.val)

C16_OutsideAllowListAlwaysDenied ==
    (Done /\ request.method # "" /\ CarriesCredential /\ OutsideAllowedProjects)
    => (ReportedError.kind = "ProjectNotAllowed" /\ ~HasResult)

(***************************************************************************)
(* C17.  After SUPABASE_ALLOWED_PROJECTS is set to the empty value, all    *)
(* access is blocked: every POST /mcp request that carries its credential, *)
(* a method and a project reference is denied at the project-access check, *)
(* whatever the reference, and nothing is forwarded for it.                *)
(***************************************************************************)
C17_EmptyValueBlocksAll ==
    (/\ Done
     /\ env.SUPABASE_ALLOWED_PROJECTS = Some(<<>>)
     /\ request.method # ""
     /\ CarriesCredential
     /\ Truthy(RequestProjectRef))
    => /\ ReportedError.kind = "ProjectNotAllowed"
       /\ forwarded = <<>>
       /\ ~HasResult

(***************************************************************************)
(* C20.  For every request a gatekeeping check denies, the reason of the   *)
(* first check that fails is delivered to the client unchanged, as the     *)
(* error field of an event of type 'error' that carries the id of the      *)
(* request; it is the last event of the response.                          *)
(***************************************************************************)
\* the first error of a list of check results, NoError when all passed
FirstError(results) ==
    IF \E i \in 1..Len(results) : results[i] # NoError
    THEN results[CHOOSE i \in 1..Len(results) :
                    results[i] # NoError /\ \A j \in 1..(i - 1) : results[j] = NoError]
    ELSE NoError

\* the checks of the secure server in the order the handler runs them
SecureDenial ==
    IF ~(Truthy(request.token) /\ Truthy(request.projectRef)) THEN NoError
    ELSE IF SecureProjectDenied
    THEN SecureValidateProjectAccess(securityConfig, request.projectRef.val)
    ELSE IF ~(IsToolsCall /\ Truthy(CallName)) THEN NoError
    ELSE FirstError(<<
           SecureValidateReadOnlyOperation(securityConfig, CallName.val),
           SecureValidateBlockedOperation(securityConfig, CallName.val),
           IF CallName.val = list_tables /\ CallSchemas.some
           THEN SecureValidateSchemaAccess(securityConfig, CallSchemas.val) ELSE NoError,
           IF CallName.val = execute_sql /\ Truthy(CallQuery)
           THEN SecureSanitizeSqlQuery(securityConfig, CallQuery.val).error ELSE NoError >>)

\* the checks of part_002 in the order the handler and its tools run them
P2Denial ==
    IF ~P2PreliminariesPass THEN NoError
    ELSE FirstError(<<
           IF P2ValidateReadOnlyOperation(securityConfig, CallName.val) THEN NoError
           ELSE Err("validateReadOnlyOperation", "ReadOnlyViolation",
                    "Operation '${name}' is blocked in read-only mode", <<>>, <<CallName.val>>),
           IF P2ValidateBlockedOperation(securityConfig, CallName.val) THEN NoError
           ELSE Err("validateBlockedOperation", "ExplicitlyBlocked",
                    "Operation '${name}' is blocked by configuration", <<>>, <<CallName.val>>),
           IF CallName.val \in {execute_sql, list_tables, describe_table} /\ CallArgs.some
              /\ P2ProjectRefused
           THEN P2ProjectDenied(CallProjectId) ELSE NoError,
           IF CallName.val = execute_sql /\ CallArgs.some
              /\ P2ValidateApiKey(request.apiKey) = NoError /\ CallQuery.some
           THEN P2SanitizeSqlQuery(securityConfig, CallQuery.val).error ELSE NoError >>)

Denial == IF variant = "secure" THEN SecureDenial ELSE P2Denial

RequestIdOf == IF variant = "secure" THEN SecureRequestId(request) ELSE P2RequestId(request)

C20_DenialReasonDeliveredVerbatim ==
    (Done /\ Denial # NoError) =>
        /\ events # <<>>
        /\ events[Len(events)] =
              [id |-> RequestIdOf, type |-> "error", data |-> "", error |-> Denial]
        /\ \A i \in 1..(Len(events) - 1) : events[i].type # "error"

\* part_002 delivered the reason of its SQL guard under the id the client
\* gave in the body
C20_Witness ==
    /\ Done
    /\ variant = "part002"
    /\ request.id = Some(<<"7">>)
    /\ Denial.check = "sanitizeSqlQuery"
    /\ Denial.kind = "Dangerous"
    /\ events[Len(events)].id = <<"7">>
    /\ events[Len(events)].error = Denial

(***************************************************************************)
(* The security configuration after start-up.                              *)
(***************************************************************************)
\* the five settings of a configuration object
Settings(cfg) ==
    <<cfg.readOnly, cfg.allowedProjects, cfg.allowedSchemas, cfg.allowedTables,
      cfg.blockedOperations>>

\* the latest res.json body is that of GET /security
SecurityAnswered == json.some /\ json.val.endpoint = "/security"

\* C21: the security configuration is read-only once loaded: after any
\* sequence of /health, /security and /mcp requests, allowed, denied or
\* failing, readOnly, allowedProjects, allowedSchemas, allowedTables and
\* blockedOperations have the values computed from the environment at
\* start-up: every POST /mcp handler leaves the object as it found it, and
\* GET /security reports exactly these values
C21_ConfigKeepsStartupValues ==
    /\ Settings(securityConfig) = Settings(ConfigOf(variant, env))
    /\ SecurityAnswered => Settings(json.val) = Settings(loadSecurityConfig(env))

\* C21 witness: GET /security answered after a POST /mcp request that was
\* denied by a restrictive configuration
C21_Witness ==
    /\ Done
    /\ variant = "secure"
    /\ SecurityAnswered
    /\ securityConfig.readOnly
    /\ Len(securityConfig.allowedProjects) = 2
    /\ \E i \in 1..Len(events) : events[i].type = "error"

(***************************************************************************)
(* The listing methods.                                                    *)
(***************************************************************************)
ListingMethods == {"tools/list", "prompts/list", "resources/list"}

\* the request carries the x-supabase-token and the x-project-ref headers
CarriesTokenAndProjectRef == Truthy(request.token) /\ Truthy(request.projectRef)

\* C22: a POST /mcp request that carries x-supabase-token and x-project-ref
\* and whose method is tools/list, prompts/list or resources/list is answered
\* with HTTP status 200, and its response stream is ended, whether the
\* project is allowed or not
C22_ListingAnswered200AndEnded ==
    (Done /\ CarriesTokenAndProjectRef /\ request.method \in ListingMethods)
        => (status = 200 /\ ended >= 1)

\* C22 witness: a listing request for a project outside the allow-list has
\* been answered with an error event
C22_Witness ==
    /\ Done
    /\ CarriesTokenAndProjectRef
    /\ request.method = "resources/list"
    /\ status = 200
    /\ ended = 1
    /\ events[Len(events)].type = "error"

(***************************************************************************)
(* The SQL guard before forwarding.                                        *)
(***************************************************************************)
\* C23: no execute_sql tools/call is forwarded unless sanitizeSqlQuery was
\* evaluated on its query and accepted it; in particular an execute_sql call
\* whose query is missing or the empty string is not forwarded
C23_ExecuteSqlForwardedOnlyAfterGuard ==
    (Done /\ IsToolsCall /\ CallName = Some(execute_sql) /\ forwarded # <<>>)
        => (guardEvals = 1 /\ Truthy(CallQuery))

(***************************************************************************)
(* The shared-server variant (part_000).  One module-level variable,       *)
(* supabaseMcpServer, is read and written by every POST /mcp handler; a    *)
(* handler gives way to the others at each await.  The outcome of the      *)
(* dynamic imports, of connect and of the server's request handler ("ok"   *)
(* or "fail") is an input.                                                 *)
(***************************************************************************)
\* initializeSupabaseMcpServer is started at most MaxInits times in a run of
\* the model
MaxInits == 3

\* a handler invocation of part_000 that holds no request
SharedIdle ==
    [pc |-> "idle", req |-> IdleRequest, events |-> <<>>, ended |-> 0, run |-> 0,
     server |-> None]

\* the requests part_000 receives
SharedRequests ==
    { Request(m, None, None, None, None) :
        m \in {"", "initialize", "tools/list", "notifications/x"} }
    \cup { Request("tools/call", None, None, None, p) :
             p \in { Some(Params(None, None, None)),
                     Some(Params(Some(list_tables), None, None)),
                     Some(Params(Some(list_tables),
                                 Some(Args(None, None, None, None)), None)) } }

\* the catch and finally clauses: one error event, then res.end()
SharedThrown(h, error) ==
    [h EXCEPT !.pc = "done",
              !.events = Append(@, Event("error", "", error)),
              !.ended = @ + 1]

\* createSupabaseMcpServer(...): the instance made by the run-th run of
\* initializeSupabaseMcpServer, not yet connected to its transport
CreatedServer(run) == Some([instance |-> run, connected |-> FALSE])

\* the handler from the start event to the await of the server's request
\* handler; server is the value of supabaseMcpServer at that moment
SharedDispatch(h, server) ==
    LET started == [h EXCEPT !.events = Append(@, Event("data", "start", NoError))]
        calling == [started EXCEPT !.pc = "calling", !.server = server]
        method == h.req.method
        params == h.req.params
    IN  IF method \in {"initialize", "tools/list"} THEN calling
        ELSE IF method = "tools/call"
        THEN IF ~params.some
             THEN SharedThrown(started,
                      Plain("TypeError", "Cannot destructure property 'name' of 'params'"))
             ELSE IF ~Truthy(params.val.name)
             THEN SharedThrown(started, Plain("ToolNameRequired", "Tool name is required"))
             ELSE IF ~params.val.arguments.some
             THEN SharedThrown(started,
                      Plain("ToolArgumentsRequired", "Tool arguments are required"))
             ELSE calling
        ELSE SharedThrown(started, Plain("UnknownMethod", "Unknown MCP method: ${method}"))

\* the handler up to its first await: the method check, the check of
\* supabaseMcpServer and either the start of initializeSupabaseMcpServer or
\* the dispatch
SharedBegan(h, server, runs) ==
    IF h.req.method = ""
    THEN [h EXCEPT !.pc = "done",
                   !.events = <<Event("error", "", Plain("MethodRequired",
                                                         "MCP method is required"))>>,
                   !.ended = 2]
    ELSE IF ~server.some
    THEN [h EXCEPT !.pc = "importing", !.run = runs + 1]
    ELSE SharedDispatch(h, server)

\* the request handler of the server returned or threw
SharedReturned(h, outcome) ==
    IF outcome = "ok"
    THEN [h EXCEPT !.pc = "done",
                   !.events = @ \o <<Event("", "result", NoError),
                                     Event("complete", "", NoError)>>,
                   !.ended = @ + 1]
    ELSE SharedThrown(h, Plain("HandlerFailed", "request handler failed"))

InitFailed == Plain("InitFailed", "initialization failed")

InitShared ==
    /\ variant = "shared"
    /\ env = EnvOf(None, None, None, None, None)
    /\ securityConfig = None
    /\ pc = "idle"
    /\ request = IdleRequest
    /\ events = <<>>
    /\ forwarded = <<>>
    /\ guardEvals = 0
    /\ ended = 0
    /\ query = <<>>
    /\ guardOut = NoOutcome
    /\ policyOut = NoCheck
    /\ status = 0
    /\ json = None
    /\ inflight = [c \in Clients |-> SharedIdle]
    /\ supabaseMcpServer = None
    /\ initRuns = 0

\* the variables part_000 does not have
sharedUnused == <<variant, env, securityConfig, pc, request, events, forwarded,
                  guardEvals, ended, query, guardOut, policyOut, status, json>>

\* a POST /mcp request of client c arrives
SharedReceive(c) ==
    /\ inflight[c].pc = "idle"
    /\ \E req \in SharedRequests :
          inflight' = [inflight EXCEPT ![c] = [SharedIdle EXCEPT !.pc = "received",
                                                                  !.req = req]]
    /\ UNCHANGED <<supabaseMcpServer, initRuns>>
    /\ UNCHANGED sharedUnused

\* the handler of c runs to its first await
SharedBegin(c) ==
    /\ inflight[c].pc = "received"
    /\ (inflight[c].req.method # "" /\ ~supabaseMcpServer.some) => initRuns < MaxInits
    /\ inflight' = [inflight EXCEPT
                       ![c] = SharedBegan(inflight[c], supabaseMcpServer, initRuns)]
    /\ initRuns' = IF inflight'[c].pc = "importing" THEN initRuns + 1 ELSE initRuns
    /\ UNCHANGED supabaseMcpServer
    /\ UNCHANGED sharedUnused

\* the dynamic imports of c's initializeSupabaseMcpServer settle; when they
\* and the platform creation succeed the new server is assigned and connect
\* is awaited; otherwise the catch clause of initializeSupabaseMcpServer
\* throws the error again and the handler is due to resume
SharedImportsReturn(c) ==
    /\ inflight[c].pc = "importing"
    /\ \E outcome \in SupabaseOutcomes :
          IF outcome = "ok"
          THEN /\ supabaseMcpServer' = CreatedServer(inflight[c].run)
               /\ inflight' = [inflight EXCEPT ![c].pc = "connecting"]
          ELSE /\ inflight' = [inflight EXCEPT ![c].pc = "initfailed"]
               /\ UNCHANGED supabaseMcpServer
    /\ UNCHANGED initRuns
    /\ UNCHANGED sharedUnused

\* connect of the server c created settles and initializeSupabaseMcpServer
\* resumes: it returns, or its catch clause throws the error again.  The
\* handler of c is due to resume, behind whatever was ready before it
SharedConnectReturns(c) ==
    /\ inflight[c].pc = "connecting"
    /\ \E outcome \in SupabaseOutcomes :
          IF outcome = "ok"
          THEN /\ supabaseMcpServer' =
                     IF supabaseMcpServer.val.instance = inflight[c].run
                     THEN Some([supabaseMcpServer.val EXCEPT !.connected = TRUE])
                     ELSE supabaseMcpServer
               /\ inflight' = [inflight EXCEPT ![c].pc = "initialized"]
          ELSE /\ inflight' = [inflight EXCEPT ![c].pc = "initfailed"]
               /\ UNCHANGED supabaseMcpServer
    /\ UNCHANGED initRuns
    /\ UNCHANGED sharedUnused

\* the handler of c resumes after its await of initializeSupabaseMcpServer:
\* it goes on to the dispatch with the server the module variable holds
\* now, or its catch clause writes the error event
SharedInitReturns(c) ==
    /\ inflight[c].pc \in {"initialized", "initfailed"}
    /\ inflight' = [inflight EXCEPT
                       ![c] = IF @.pc = "initialized"
                              THEN SharedDispatch(@, supabaseMcpServer)
                              ELSE SharedThrown(@, InitFailed)]
    /\ UNCHANGED <<supabaseMcpServer, initRuns>>
    /\ UNCHANGED sharedUnused

\* the request handler of the server settles for c
SharedHandlerReturns(c) ==
    /\ inflight[c].pc = "calling"
    /\ \E outcome \in SupabaseOutcomes :
          inflight' = [inflight EXCEPT ![c] = SharedReturned(@, outcome)]
    /\ UNCHANGED <<supabaseMcpServer, initRuns>>
    /\ UNCHANGED sharedUnused

\* the client has its response: nothing of the request is kept
SharedFinish(c) ==
    /\ inflight[c].pc = "done"
    /\ inflight' = [inflight EXCEPT ![c] = SharedIdle]
    /\ UNCHANGED <<supabaseMcpServer, initRuns>>
    /\ UNCHANGED sharedUnused

NextShared ==
    \E c \in Clients :
        \/ SharedReceive(c)
        \/ SharedBegin(c)
        \/ SharedImportsReturn(c)
        \/ SharedConnectReturns(c)
        \/ SharedInitReturns(c)
        \/ SharedHandlerReturns(c)
        \/ SharedFinish(c)

SpecShared == InitShared /\ [][NextShared]_vars

(***************************************************************************)
(* The shape of a response stream.                                         *)
(***************************************************************************)
\* the response streams of the state with the position of their handlers
Streams ==
    IF variant = "shared"
    THEN { [events |-> inflight[c].events, ended |-> inflight[c].ended,
            finished |-> inflight[c].pc = "done"] : c \in Clients }
    ELSE { [events |-> events, ended |-> ended, finished |-> Done],
           [events |-> inflight.events, ended |-> inflight.ended,
            finished |-> inflight.pc = "done"] }

Terminal(e) == e.type \in {"error", "complete"}

\* the event written for the result of the request: of type 'data' in the
\* secure server; in part_002 and part_000 it has no type, and in part_002
\* no result field either when the tool returned undefined
IsResultEvent(e) ==
    \/ e.type = "data" /\ e.data \notin {"", "start"}
    \/ e.type = "" /\ e.error = NoError

\* a terminal event is the last event, 'complete' directly follows the
\* result event, and a finished response has its terminal event
WellTerminated(s) ==
    /\ \A i \in 1..Len(s.events) : Terminal(s.events[i]) => i = Len(s.events)
    /\ (s.events # <<>> /\ s.events[Len(s.events)].type = "complete")
           => (Len(s.events) >= 2 /\ IsResultEvent(s.events[Len(s.events) - 1]))
    /\ s.finished => (s.events # <<>> /\ Terminal(s.events[Len(s.events)]))

\* C24: in the streaming variants each POST /mcp response contains exactly
\* one terminal event, 'error' or 'complete' and never both; 'complete' is
\* written only after the result event of the same request; no event follows
\* the terminal event
C24_ExactlyOneTerminalEvent == \A s \in Streams : WellTerminated(s)

\* C24 witness: a response that ended with 'complete' after its result and a
\* start event
C24_Witness ==
    /\ Done
    /\ Len(events) = 3
    /\ events[3].type = "complete"
    /\ IsResultEvent(events[2])
    /\ forwarded # <<>>
    /\ inflight.pc = "done"
    /\ inflight.forwarded # <<>>
    /\ inflight.events[Len(inflight.events)].type = "complete"

\* C25: on every path through a POST /mcp handler (missing method,
\* validation failure, denial, thrown error, success) res.end() is called
\* exactly once
C25_EndCalledExactlyOnce == \A s \in Streams : s.finished => s.ended = 1

(***************************************************************************)
(* The initialization of the shared server.                                *)
(***************************************************************************)
\* the handlers that are inside initializeSupabaseMcpServer
Initializing == { c \in Clients : inflight[c].pc \in {"importing", "connecting"} }

\* the server instances the handlers have called into
InstancesInUse ==
    { inflight[c].server.val.instance : c \in { d \in Clients : inflight[d].server.some } }

\* C26: in the shared-server variant the server is initialized only if it is
\* not already initialized: under any interleaving of concurrent POST /mcp
\* requests initializeSupabaseMcpServer does not run a second time beside or
\* after a run that created the server, and all requests use the same server
\* instance
C26_InitializedAtMostOnce ==
    /\ Cardinality(Initializing) <= 1
    /\ Cardinality(InstancesInUse) <= 1
    /\ \A c \in Initializing :
          supabaseMcpServer.some => supabaseMcpServer.val.instance = inflight[c].run

\* the module variable holds a server whose connect has not succeeded
Unconnected == supabaseMcpServer.some /\ ~supabaseMcpServer.val.connected

\* C27: when initializeSupabaseMcpServer fails for a request (an import, the
\* platform creation or connect throws) the request ends with an error event
\* and the server is left uninitialized, so that the next request attempts
\* the initialization again; no request is served by a server whose
\* initialization did not complete
C27_FailedInitLeavesServerUninitialized ==
    /\ \A c \in Clients :
          (/\ inflight[c].pc = "done"
           /\ inflight[c].run > 0
           /\ (inflight[c].events = <<>> \/ inflight[c].events[1].data # "start"))
              => inflight[c].events = <<Event("error", "", InitFailed)>>
    /\ Unconnected =>
          \E c \in Clients : /\ inflight[c].pc = "connecting"
                             /\ inflight[c].run = supabaseMcpServer.val.instance
    /\ \A c \in Clients : inflight[c].server.some => inflight[c].server.val.connected

(***************************************************************************)
(* The requests part_002 makes to Supabase.                                *)
(***************************************************************************)
IsP2Call(name) == Done /\ variant = "part002" /\ IsToolsCall /\ CallName = Some(name)

RpcEndpoint == "/rest/v1/rpc/execute_sql"
RestEndpoint == "/rest/v1/"

\* C28: in part_002 one execute_sql call makes at most two requests to
\* Supabase: the first to the rpc endpoint, the fall-back to the REST endpoint
\* only after the primary request failed, exactly once and with the same
\* sanitized query; when the primary request succeeds there is no fall-back;
\* when both fail the call ends with 'SQL execution failed' and no further
\* attempt
C28_AtMostOneFallback ==
    IsP2Call(execute_sql) =>
        /\ Len(forwarded) <= 2
        /\ Len(forwarded) >= 1 =>
              /\ forwarded[1].endpoint = RpcEndpoint
              /\ forwarded[1].data = Some(P2SanitizeSqlQuery(securityConfig,
                                                             CallQuery.val).value)
              /\ (forwarded[1].settled = "ok") = (Len(forwarded) = 1)
        /\ Len(forwarded) = 2 =>
              /\ forwarded[1].settled = "fail"
              /\ forwarded[2].endpoint = RestEndpoint
              /\ forwarded[2].data = forwarded[1].data
              /\ (forwarded[2].settled = "fail")
                     = (ReportedError.kind = "SqlExecutionFailed")
        /\ ReportedError.kind = "SqlExecutionFailed" => Len(forwarded) = 2

\* C28 witness: the primary and the fall-back request both failed and the
\* call ended with 'SQL execution failed'
C28_Witness ==
    /\ IsP2Call(execute_sql)
    /\ Len(forwarded) = 2
    /\ forwarded[1].settled = "fail"
    /\ forwarded[2].settled = "fail"
    /\ ReportedError.kind = "SqlExecutionFailed"

\* the x-supabase-key header is present and starts with 'eyJ'
WellFormedKey == Truthy(request.apiKey) /\ startsWith(request.apiKey.val, EyJ)

KeyedTools == {Some(execute_sql), Some(list_tables), Some(describe_table)}

StartWritten == \E i \in 1..Len(events) : events[i].data = "start"

\* C29: in part_002 no request is sent to Supabase for a tools/call whose
\* x-supabase-key header is absent or does not start with 'eyJ': such a call
\* to execute_sql, list_tables or describe_table ends with an error, and a
\* tools/call without a key is rejected before the 'Starting MCP operation'
\* event is written
C29_NoRequestWithoutWellFormedKey ==
    (Done /\ variant = "part002" /\ IsToolsCall /\ ~WellFormedKey) =>
        /\ forwarded = <<>>
        /\ CallName \in KeyedTools => ReportedError # NoError
        /\ ~Truthy(request.apiKey) =>
              (~StartWritten /\ ReportedError.kind = "ApiKeyRequired")

\* C29 witness: a list_tables call for an allowed project whose key does not
\* start with 'eyJ' ended with the error of validateApiKey after the start
\* event
C29_Witness ==
    /\ IsP2Call(list_tables)
    /\ Truthy(request.apiKey)
    /\ ~WellFormedKey
    /\ StartWritten
    /\ ReportedError.kind = "InvalidApiKey"
    /\ forwarded = <<>>

\* a request the call made to Supabase failed and none succeeded after it
RequestsFailed == forwarded # <<>> /\ forwarded[Len(forwarded)].settled = "fail"

CompleteWritten == \E i \in 1..Len(events) : events[i].type = "complete"

\* C30: in part_002 a failure of the Supabase request made by list_tables or
\* describe_table does not produce an error event: the call returns a text
\* result that describes the failure and the stream ends with a result event
\* followed by 'complete'; a failure of the requests made by execute_sql
\* produces an error event and no 'complete'
C30_FailureIsResultExceptExecuteSql ==
    /\ ((IsP2Call(list_tables) \/ IsP2Call(describe_table)) /\ RequestsFailed) =>
          /\ ReportedError = NoError
          /\ Len(events) = 3
          /\ events[2].type = ""
          /\ events[2].data = "could not retrieve"
          /\ events[3].type = "complete"
    /\ (IsP2Call(execute_sql) /\ RequestsFailed) =>
          /\ ReportedError.kind = "SqlExecutionFailed"
          /\ ~CompleteWritten
          /\ ~HasResult

\* C30 witness: the request of a describe_table call failed and the stream
\* ended with the result that describes the failure and 'complete'
C30_Witness ==
    /\ IsP2Call(describe_table)
    /\ RequestsFailed
    /\ events[2].data = "could not retrieve"
    /\ events[3].type = "complete"

====
